---- MODULE Spec2Model ----
(***************************************************************************)
(* Facility-booking server over UDP: the booking store, the monitor        *)
(* registry, the duplicate-suppression history and the per-datagram        *)
(* workers of server/ops.go, server/state.go and server/main.go.           *)
(***************************************************************************)
EXTENDS Integers, Sequences, FiniteSets, TLC

VARIABLES semantics, facilityData, monitorSubs, history, now, workers,
          dataLock, sent, executed, client, codec, calc, goroutines, mutexes, recvBuf, cli

vars == <<semantics, facilityData, monitorSubs, history, now, workers,
          dataLock, sent, executed, client, codec, calc, goroutines, mutexes, recvBuf, cli>>

\* ------------------------------------------------------------------ bounds
\* datagrams the receive loop reads during one run, their workers running
\* in parallel
MaxPackets == 2
\* datagrams the receive loop reads during one run when each worker ends
\* before the next datagram arrives
SeqPackets == 3
\* last reading of the wall clock
MaxNow == 1

\* --------------------------------------------------------------- constants
SemanticsAtLeastOnce == "at-least-once"
SemanticsAtMostOnce == "at-most-once"

OpQueryAvailability == 1
OpBookFacility == 2
OpChangeBooking == 3
OpMonitorAvailability == 4
OpCancelBooking == 5
OpAddParticipant == 6
OpCallback == 100

\* ----------------------------------------------------------- machine ints
\* int32 addition with two's-complement wrap-around (Go's + on int32)
AddInt32(a, b) ==
    IF a > 0 /\ b > 0 /\ a > 2147483647 - b
        THEN (a - 2147483647 - 1) + (b - 2147483647 - 1)
    ELSE IF a < 0 /\ b < 0 /\ a < (-2147483647 - 1) - b
        THEN (a + 2147483647 + 1) + (b + 2147483647 + 1)
    ELSE a + b

\* Go's / and % on signed integers truncate toward zero
GoDiv(a, b) == IF a >= 0 THEN a \div b ELSE -((-a) \div b)
GoRem(a, b) == a - b * GoDiv(a, b)

\* the conversion uint8(x) keeps the low eight bits
Uint8(x) == x % 256

\* --------------------------------------------------------------- the store
Booking(id, sd, sh, sm, ed, eh, em, ps) ==
    [ConfirmationID |-> id,
     StartDay |-> sd, StartHour |-> sh, StartMinute |-> sm,
     EndDay |-> ed, EndHour |-> eh, EndMinute |-> em,
     Participants |-> ps]

Facilities == {"RoomA", "Lab1"}

\* NewServerState: the seeded facilities and bookings ("BKG-<n>" is n)
NewServerState ==
    [f \in Facilities |->
        IF f = "RoomA"
            THEN << Booking(10000, 0, 9, 0, 0, 10, 0, << >>),
                    Booking(10001, 1, 14, 0, 1, 15, 30, << >>) >>
            ELSE << Booking(20000, 2, 10, 0, 2, 12, 0, << >>) >>]

\* intervals that also overlap when they only touch
timesOverlapClosed(start1, end1, start2, end2) == (start1 <= end2) /\ (start2 <= end1)

timesOverlap(start1, end1, start2, end2) == (start1 < end2) /\ (start2 < end1)

toAbsoluteMinutes(day, hour, minute) == day * 1440 + hour * 60 + minute

\* a split that leaves the hours of the earlier days in the hour field
fromAbsoluteMinutesHours(total) ==
    << Uint8(GoDiv(total, 1440)), Uint8(GoDiv(total, 60)), Uint8(GoRem(total, 60)) >>

fromAbsoluteMinutes(total) ==
    LET day == GoDiv(total, 1440)
        rem == GoRem(total, 1440)
        hour == GoDiv(rem, 60)
        minute == GoRem(rem, 60)
    IN  << Uint8(day), Uint8(hour), Uint8(minute) >>

StartAbs(bk) == toAbsoluteMinutes(bk.StartDay, bk.StartHour, bk.StartMinute)
EndAbs(bk) == toAbsoluteMinutes(bk.EndDay, bk.EndHour, bk.EndMinute)

\* s without its i-th element: append(s[:i], s[i+1:]...)
RemoveAt(s, i) == [j \in 1..(Len(s) - 1) |-> IF j < i THEN s[j] ELSE s[j + 1]]

\* index of the first booking of list bks carrying confID, 0 when none
IndexOf(bks, confID) ==
    IF \E i \in 1..Len(bks) : bks[i].ConfirmationID = confID
        THEN CHOOSE i \in 1..Len(bks) :
                /\ bks[i].ConfirmationID = confID
                /\ \A j \in 1..(i - 1) : bks[j].ConfirmationID # confID
        ELSE 0

\* the facilities a scan over the map can stop at: those holding confID
FoundIn(store, confID) == {f \in DOMAIN store : IndexOf(store[f], confID) # 0}

\* some booking of list bks overlaps [newStart, newEnd)
Collides(bks, newStart, newEnd) ==
    \E i \in 1..Len(bks) : timesOverlap(newStart, newEnd, StartAbs(bks[i]), EndAbs(bks[i]))

\* what a handler hands back: the store, the reply's status and data, and
\* the notification it raised (notify, facility, message)
Outcome(store, status, data, notify, fac, msg) ==
    [store |-> store, status |-> status, data |-> data,
     notify |-> notify, fac |-> fac, msg |-> msg]

NoNotify(store, status, data) == Outcome(store, status, data, FALSE, "", << >>)

\* ------------------------------------------------------------ the handlers
\* handleBookFacility; t is the reading of time.Now().UnixNano() that names
\* the booking ("BKG-<t>")
handleBookFacility(store, req, t) ==
    LET facName == req.FacilityName
        newStart == toAbsoluteMinutes(req.StartDay, req.StartHour, req.StartMinute)
        newEnd == toAbsoluteMinutes(req.EndDay, req.EndHour, req.EndMinute)
        newID == t
        newBooking == Booking(newID, req.StartDay, req.StartHour, req.StartMinute,
                              req.EndDay, req.EndHour, req.EndMinute, << >>)
    IN  IF facName \notin DOMAIN store
            THEN NoNotify(store, -1, <<"Facility not found", facName>>)
        ELSE IF newEnd <= newStart
            THEN NoNotify(store, -1, <<"Error: End time must be after start time.">>)
        ELSE IF Collides(store[facName], newStart, newEnd)
            THEN NoNotify(store, 1, <<"Time conflict with an existing booking.">>)
        ELSE Outcome([store EXCEPT ![facName] = Append(@, newBooking)], 0,
                     <<"Booked", facName, req.StartDay, req.StartHour, req.StartMinute,
                       req.EndDay, req.EndHour, req.EndMinute, newID>>,
                     TRUE, facName, <<"New booking created", newID>>)

\* the bookings left after the removal, followed by the booking put back
Reinsert(rest, bk) == Append(rest, bk)

\* handleChangeBooking; fName is the facility at which the scan over the
\* map stopped (any facility holding the id), "" when no facility holds it
handleChangeBooking(store, req, fName) ==
    LET confID == req.ConfirmationID
        offset == req.OffsetMinutes
    IN  IF fName \notin FoundIn(store, confID)
            THEN NoNotify(store, -1, <<"Error: Booking not found", confID>>)
        ELSE
            LET oldIndex == IndexOf(store[fName], confID)
                oldBooking == store[fName][oldIndex]
                oldStart == StartAbs(oldBooking)
                oldEnd == EndAbs(oldBooking)
                newStartAbs == AddInt32(oldStart, offset)
                newEndAbs == AddInt32(oldEnd, offset)
                ns == fromAbsoluteMinutes(newStartAbs)
                ne == fromAbsoluteMinutes(newEndAbs)
                rest == RemoveAt(store[fName], oldIndex)
                updated == Booking(confID, ns[1], ns[2], ns[3], ne[1], ne[2], ne[3],
                                   oldBooking.Participants)
            IN  IF newEndAbs <= newStartAbs
                    THEN NoNotify(store, -1, <<"Error: End time must be after start time.">>)
                ELSE IF Collides(rest, newStartAbs, newEndAbs)
                    THEN NoNotify([store EXCEPT ![fName] = Reinsert(rest, oldBooking)], 1,
                                  <<"Time conflict with an existing booking.">>)
                ELSE Outcome([store EXCEPT ![fName] = Append(rest, updated)], 0,
                             <<"Changed booking", confID, offset>>,
                             TRUE, fName, <<"Booking changed", confID, offset, ns, ne>>)

\* handleCancelBooking; fName as in handleChangeBooking
\* handleCancelBooking that cuts the list at the booking it cancels
handleCancelBookingTruncates(store, req, fName) ==
    LET confID == req.ConfirmationID
    IN  IF fName \notin FoundIn(store, confID)
            THEN NoNotify(store, 0, <<"Booking not found (already canceled?)", confID>>)
        ELSE Outcome([store EXCEPT ![fName] = SubSeq(@, 1, IndexOf(@, confID) - 1)], 0,
                     <<"Canceled booking", confID>>,
                     TRUE, fName, <<"Booking canceled", confID>>)

handleCancelBooking(store, req, fName) ==
    LET confID == req.ConfirmationID
    IN  IF fName \notin FoundIn(store, confID)
            THEN NoNotify(store, 0, <<"Booking not found (already canceled?)", confID>>)
        ELSE Outcome([store EXCEPT ![fName] = RemoveAt(@, IndexOf(@, confID))], 0,
                     <<"Canceled booking", confID>>,
                     TRUE, fName, <<"Booking canceled", confID>>)

\* handleAddParticipant that leaves a name the booking already lists alone
handleAddParticipantOnce(store, req, fName) ==
    LET confID == req.ConfirmationID
        participant == req.ParticipantName
    IN  IF fName \notin FoundIn(store, confID)
            THEN NoNotify(store, -1, <<"Error: Booking not found", confID>>)
        ELSE LET i == IndexOf(store[fName], confID)
                 ps == store[fName][i].Participants
             IN  Outcome([store EXCEPT ![fName][i].Participants =
                                IF \E j \in 1..Len(ps) : ps[j] = participant
                                    THEN ps ELSE Append(ps, participant)], 0,
                         <<"Added participant", participant, confID>>,
                         TRUE, fName, <<"Participant added", participant, confID>>)

\* handleAddParticipant; fName as in handleChangeBooking
handleAddParticipant(store, req, fName) ==
    LET confID == req.ConfirmationID
        participant == req.ParticipantName
    IN  IF fName \notin FoundIn(store, confID)
            THEN NoNotify(store, -1, <<"Error: Booking not found", confID>>)
        ELSE Outcome([store EXCEPT ![fName][IndexOf(store[fName], confID)].Participants =
                                        Append(@, participant)], 0,
                     <<"Added participant", participant, confID>>,
                     TRUE, fName, <<"Participant added", participant, confID>>)

\* the intervals of availableTimingsForDay: the bookings that touch the day,
\* clipped to it, in the order of the list
DayIntervals(day, bookings) ==
    LET dayStart == day * 1440
        dayEnd == Uint8(day + 1) * 1440
        touching == SelectSeq(bookings, LAMBDA bk : ~(bk.EndDay < day \/ bk.StartDay > day))
    IN  [i \in 1..Len(touching) |->
            [start |-> IF StartAbs(touching[i]) < dayStart
                            THEN dayStart ELSE StartAbs(touching[i]),
             end |-> IF EndAbs(touching[i]) > dayEnd
                            THEN dayEnd ELSE EndAbs(touching[i])]]

\* one pass of the insertion sort: key goes behind the last interval that
\* does not start after it
InsertByStart(sorted, key) ==
    LET after == {j \in 1..Len(sorted) :
                    \A k \in j..Len(sorted) : sorted[k].start > key.start}
        at == IF after = {} THEN Len(sorted) + 1
              ELSE CHOOSE j \in after : \A k \in after : j <= k
    IN  [j \in 1..(Len(sorted) + 1) |->
            IF j < at THEN sorted[j] ELSE IF j = at THEN key ELSE sorted[j - 1]]

RECURSIVE SortByStart(_)
SortByStart(ivs) ==
    IF ivs = << >> THEN << >>
    ELSE InsertByStart(SortByStart(SubSeq(ivs, 1, Len(ivs) - 1)), ivs[Len(ivs)])

\* the free intervals printed while walking the sorted intervals from
\* position i with the day covered up to current: each is the four numbers
\* of "%02d:%02d-%02d:%02d"
RECURSIVE FreeFrom(_, _, _, _)
FreeFrom(ivs, i, current, dayEnd) ==
    IF i > Len(ivs)
        THEN IF current < dayEnd
                THEN << <<GoDiv(current, 60), GoRem(current, 60), 24, 0>> >>
                ELSE << >>
    ELSE LET gap == IF ivs[i].start > current
                        THEN << <<GoDiv(current, 60), GoRem(current, 60),
                                  GoDiv(ivs[i].start, 60), GoRem(ivs[i].start, 60)>> >>
                        ELSE << >>
             next == IF ivs[i].end > current THEN ivs[i].end ELSE current
         IN  gap \o FreeFrom(ivs, i + 1, next, dayEnd)

\* availableTimingsForDay: the free intervals of the day, << >> standing
\* for "Fully booked"
availableTimingsForDay(day, bookings) ==
    FreeFrom(SortByStart(DayIntervals(day, bookings)), 1, day * 1440,
             Uint8(day + 1) * 1440)

\* the "Current bookings" lines of one day, << >> standing for "None"
BookingLines(day, bookings) ==
    LET listed == SelectSeq(bookings, LAMBDA bk : bk.StartDay <= day /\ bk.EndDay >= day)
    IN  [i \in 1..Len(listed) |->
            <<listed[i].ConfirmationID, listed[i].StartHour, listed[i].StartMinute,
              listed[i].EndHour, listed[i].EndMinute, listed[i].Participants>>]

\* handleQuery once the facility has been found: one section per entry of
\* the day list
RenderQuery(name, days, bookings) ==
    <<"Facility availability", name,
      [i \in 1..Len(days) |->
            [day |-> days[i],
             bookings |-> BookingLines(days[i], bookings),
             available |-> availableTimingsForDay(days[i], bookings)]]>>

\* the facilities at which a scan for confID can stop ("" when none holds it)
ScanChoices(store, confID) ==
    IF FoundIn(store, confID) = {} THEN {""} ELSE FoundIn(store, confID)

\* --------------------------------------------------------- monitor registry
Registration(addr, fac, expiry) ==
    [ClientAddr |-> addr, FacilityName |-> fac, ExpiresAt |-> expiry]

\* the callback frame of notifySubscribers
Callback(facility, updateMsg) ==
    [OpCode |-> OpCallback, RequestID |-> 0, Status |-> 0,
     Data |-> <<"Facility updated", facility, updateMsg>>]

\* a subscription that is still live at the instant it expires
LiveAtExpiry(sub, t) == t <= sub.ExpiresAt

\* a subscription is live at clock reading t: now.Before(sub.ExpiresAt)
Live(sub, t) == t < sub.ExpiresAt

\* the subscriptions notifySubscribers keeps at clock reading t
KeptSubs(subs, t) == SelectSeq(subs, LAMBDA sub : Live(sub, t))

\* the live subscriptions of every facility, called back whatever changed
CalledSubsAnyFacility(subs, facility, t) == SelectSeq(subs, LAMBDA sub : Live(sub, t))

\* the subscriptions notifySubscribers calls back, in registry order
CalledSubs(subs, facility, t) ==
    SelectSeq(subs, LAMBDA sub : sub.FacilityName = facility /\ Live(sub, t))

\* the datagrams one pass of notifySubscribers writes to the socket
CallbackFrames(subs, facility, updateMsg, t) ==
    LET called == CalledSubs(subs, facility, t)
    IN  [i \in 1..Len(called) |->
            [to |-> called[i].ClientAddr, frame |-> Callback(facility, updateMsg)]]

\* ------------------------------------------------------------- the requests
Request(op, rid, fac, slot, confID, offset, period, name) ==
    [OpCode |-> op, RequestID |-> rid, FacilityName |-> fac,
     StartDay |-> slot[1], StartHour |-> slot[2], StartMinute |-> slot[3],
     EndDay |-> slot[4], EndHour |-> slot[5], EndMinute |-> slot[6],
     ConfirmationID |-> confID, OffsetMinutes |-> offset,
     MonitorPeriod |-> period, ParticipantName |-> name,
     DaysList |-> << >>, Cut |-> FALSE]

NoSlot == <<0, 0, 0, 0, 0, 0>>
\* the empty confirmation id
NoID == -1

\* the request of a Query: the facility and the day list
QueryRequest(rid, fac, days) ==
    [Request(OpQueryAvailability, rid, fac, NoSlot, NoID, 0, 0, "")
        EXCEPT !.DaysList = days]

\* the datagram of req with bytes missing at its end
Truncated(req) == [req EXCEPT !.Cut = TRUE]

\* the peer that changes bookings and the peer that monitors
Writer == "P1"
Watcher == "P2"
\* Mon 09:00-10:00 and a slot whose end is before its start
FreeSlot == <<0, 9, 0, 0, 10, 0>>
BadSlot == <<0, 12, 0, 0, 11, 0>>
\* what clients ask to book ("Ghost" is not a facility)
AskedBookings == ({"RoomA", "Lab1", "Ghost"} \X {FreeSlot}) \cup ({"RoomA"} \X {BadSlot})
\* confirmation ids clients name: a seeded booking and the first id minted
AskedIDs == {10000, 0}
AskedOffsets == {-660, 60, 1740}
AskedMonitors == {"RoomA", "Lab1", "Ghost"} \X {1}
AskedNames == {"alice"}
\* what clients ask to see (Mon and Tue of RoomA; a facility that is none)
AskedQueries == {<<"RoomA", <<0, 1>>>>, <<"Ghost", <<0>>>>}
\* opcodes outside 1..6 that reach the server
AskedOpCodes == {7}

\* the operations a client of peer addr starts, with request-id rid
Payloads(addr, rid) ==
    IF addr = Writer
        THEN {Request(OpBookFacility, rid, b[1], b[2], NoID, 0, 0, "") : b \in AskedBookings}
             \cup {Request(OpChangeBooking, rid, "", NoSlot, c, o, 0, "") :
                    c \in AskedIDs, o \in AskedOffsets}
             \cup {Request(OpCancelBooking, rid, "", NoSlot, c, 0, 0, "") : c \in AskedIDs}
             \cup {Request(OpAddParticipant, rid, "", NoSlot, c, 0, 0, n) :
                    c \in AskedIDs, n \in AskedNames}
        ELSE {Request(OpMonitorAvailability, rid, m[1], NoSlot, NoID, 0, m[2], "") :
                    m \in AskedMonitors}
             \cup {QueryRequest(rid, q[1], q[2]) : q \in AskedQueries}
             \cup {Request(op, rid, "", NoSlot, NoID, 0, 0, "") : op \in AskedOpCodes}
             \cup {Truncated(Request(OpCancelBooking, rid, "", NoSlot, 10001, 0, 0, ""))}

\* ------------------------------------------------------------- the workers
\* a key that leaves the peer's address out
RequestKeyByID(addr, req) == [Addr |-> "", RequestID |-> req.RequestID]

RequestKey(addr, req) == [Addr |-> addr, RequestID |-> req.RequestID]

Reply(req, status, data) ==
    [OpCode |-> req.OpCode, RequestID |-> req.RequestID, Status |-> status, Data |-> data]

NoReply == [OpCode |-> 0, RequestID |-> 0, Status |-> 0, Data |-> << >>]

\* a worker: where it stands in handlePacket, its datagram, the reply it
\* computed, and what its handler left pending (notification, expiry) with
\* the clock reading notifySubscribers took; turn is the place of its call
\* of processOperation among the calls made so far (0 before the call);
\* held is the booking handleChangeBooking has taken out of its list and
\* not yet put back (*oldBooking with oldIndex), << >> when there is none
Worker(pc, addr, req, reply, fac, msg, expiry, readAt) ==
    [pc |-> pc, addr |-> addr, req |-> req, reply |-> reply,
     fac |-> fac, msg |-> msg, expiry |-> expiry, readAt |-> readAt, turn |-> 0,
     held |-> << >>]

Spawned(addr, req) == Worker("lookup", addr, req, NoReply, "", << >>, 0, 0)

\* the request-id a client of peer addr gives its next operation: one more
\* than the ids it has used (getNextRequestID, up to the random start)
NextRequestID(addr) ==
    1 + Cardinality({workers[w].req.RequestID :
                        w \in {v \in DOMAIN workers : workers[v].addr = addr}})

\* main reads one more datagram while earlier workers may still run
CanSpawn == Len(workers) < MaxPackets

\* main reads one more datagram after every earlier worker has ended
CanSpawnIdle ==
    /\ Len(workers) < SeqPackets
    /\ \A w \in DOMAIN workers : workers[w].pc = "done"

\* where handlePacket goes once processOperation has returned
AfterHandler == IF semantics = SemanticsAtMostOnce THEN "store" ELSE "send"

Replied(w, status, data) ==
    [workers[w] EXCEPT !.pc = AfterHandler,
                       !.reply = Reply(workers[w].req, status, data),
                       !.fac = "", !.msg = << >>, !.expiry = 0, !.readAt = 0,
                       !.held = << >>]

KnownOp(op) == op \in {OpQueryAvailability, OpBookFacility, OpChangeBooking,
                       OpMonitorAvailability, OpCancelBooking, OpAddParticipant}

\* UnmarshalRequest returns no error: every field is there and the opcode
\* is one of the six
Decodes(req) == ~req.Cut /\ KnownOp(req.OpCode)

\* no frame has been marshalled or unmarshalled
IdleCodec == [pc |-> "idle"]

\* no conversion or rendering has been asked for
IdleCalc == [pc |-> "idle"]

\* the three mutexes of ServerState, none held (0; else the holder)
Unlocked == [historyLock |-> 0, dataLock |-> 0, monitorLock |-> 0]

\* main's receive buffer before the first read, and no goroutine started
EmptyBuf == [data |-> << >>, handlers |-> << >>]

\* no request is being sent
NoRequest == [OpCode |-> 0, RequestID |-> 0]

\* the client process as main leaves it to RunCLI: at the menu, not
\* monitoring, no listener goroutine, nothing on its socket; stale is the
\* value MonitorMode had before it was last written; taken lists the
\* datagrams read from the socket with their reader; run counts the client
\* processes started at this address and ops lists, for the address, the
\* workers of the datagrams that were the first of their operation with
\* the process that sent them
AtMenu ==
    [pc |-> "menu", MonitorMode |-> FALSE, stale |-> FALSE, NextReqID |-> 1,
     asked |-> NoRequest, replied |-> FALSE, subscribed |-> FALSE,
     listeners |-> << >>, socket |-> << >>, taken |-> << >>, issued |-> 0,
     run |-> 1, ops |-> << >>]

\* a client that has not called SendRequest
IdleClient ==
    [pc |-> "idle", PacketDemo |-> FALSE, data |-> << >>, attempt |-> 0,
     wrote |-> << >>, outcomes |-> << >>, reply |-> NoReply]

Init ==
    /\ semantics \in {SemanticsAtLeastOnce, SemanticsAtMostOnce}
    /\ facilityData = NewServerState
    /\ monitorSubs = << >>
    /\ history = << >>
    /\ now = 0
    /\ workers = << >>
    /\ dataLock = 0
    /\ sent = << >>
    /\ executed = << >>
    /\ client = IdleClient
    /\ codec = IdleCodec
    /\ calc = IdleCalc
    /\ goroutines = << >>
    /\ mutexes = Unlocked
    /\ recvBuf = EmptyBuf
    /\ cli = AtMenu

\* main's read loop reads the datagram of a new operation of peer addr
\* and spawns a worker for it
Receive(addr, req) ==
    /\ workers' = Append(workers, Spawned(addr, req))
    /\ UNCHANGED <<cli, recvBuf, codec, calc, client, goroutines, mutexes, semantics,
                   facilityData, monitorSubs, history, now, dataLock, sent, executed>>

\* main's read loop reads a datagram it has read before (the client's
\* retry resends the same bytes) and spawns another worker for it
Retransmit(w) ==
    /\ workers' = Append(workers, Spawned(workers[w].addr, workers[w].req))
    /\ UNCHANGED <<cli, recvBuf, codec, calc, client, goroutines, mutexes, semantics,
                   facilityData, monitorSubs, history, now, dataLock, sent, executed>>

\* the wall clock advances
Tick ==
    /\ now < MaxNow
    /\ now' = now + 1
    /\ UNCHANGED <<cli, recvBuf, codec, calc, client, goroutines, mutexes, semantics,
                   facilityData, monitorSubs, history, workers, dataLock, sent,
                   executed>>

\* handlePacket steps 1-3 without the look-up: every decoded datagram goes
\* on to its handler
LookupSkipsHistory(w) ==
    /\ workers[w].pc = "lookup"
    /\ workers' = [workers EXCEPT ![w].pc =
                        IF Decodes(workers[w].req) THEN "exec" ELSE "done"]
    /\ UNCHANGED <<cli, recvBuf, codec, calc, client, goroutines, mutexes, semantics,
                   facilityData, monitorSubs, history, now, dataLock, sent, executed>>

\* handlePacket steps 1-3 of a server that answers a datagram it cannot
\* decode with an error reply
LookupRepliesUnknown(w) ==
    /\ workers[w].pc = "lookup"
    /\ LET key == RequestKey(workers[w].addr, workers[w].req)
       IN  IF ~Decodes(workers[w].req)
               THEN /\ workers' = [workers EXCEPT ![w].pc = "done"]
                    /\ sent' = Append(sent, [to |-> workers[w].addr,
                                             frame |-> Reply(workers[w].req, -1,
                                                             <<"Unknown OpCode",
                                                               workers[w].req.OpCode>>)])
           ELSE IF semantics = SemanticsAtMostOnce /\ key \in DOMAIN history
               THEN /\ sent' = Append(sent, [to |-> workers[w].addr, frame |-> history[key]])
                    /\ workers' = [workers EXCEPT ![w].pc = "done"]
           ELSE /\ workers' = [workers EXCEPT ![w].pc = "exec"]
                /\ sent' = sent
    /\ UNCHANGED <<cli, recvBuf, codec, calc, client, goroutines, mutexes, semantics,
                   facilityData, monitorSubs, history, now, dataLock, executed>>

\* handlePacket steps 1-3: decode, and under at-most-once look the key up
Lookup(w) ==
    /\ workers[w].pc = "lookup"
    /\ LET key == RequestKey(workers[w].addr, workers[w].req)
       IN  IF ~Decodes(workers[w].req)
               THEN /\ workers' = [workers EXCEPT ![w].pc = "done"]
                    /\ sent' = sent
           ELSE IF semantics = SemanticsAtMostOnce /\ key \in DOMAIN history
               THEN /\ sent' = Append(sent, [to |-> workers[w].addr, frame |-> history[key]])
                    /\ workers' = [workers EXCEPT ![w].pc = "done"]
           ELSE /\ workers' = [workers EXCEPT ![w].pc = "exec"]
                /\ sent' = sent
    /\ UNCHANGED <<cli, recvBuf, codec, calc, client, goroutines, mutexes, semantics,
                   facilityData, monitorSubs, history, now, dataLock, executed>>

\* the worker's state once its handler returned outcome out: the handler
\* keeps the store's lock while it notifies
Handled(w, out) ==
    IF out.notify
        THEN [workers[w] EXCEPT !.pc = "notify",
                                !.reply = Reply(workers[w].req, out.status, out.data),
                                !.fac = out.fac, !.msg = out.msg]
        ELSE Replied(w, out.status, out.data)

\* processOperation for the opcodes that change the store: the handler
\* takes the store's lock and runs up to its call of notifySubscribers
Execute(w) ==
    /\ workers[w].pc = "exec"
    /\ workers[w].req.OpCode \in {OpBookFacility, OpChangeBooking,
                                  OpCancelBooking, OpAddParticipant}
    /\ dataLock = 0
    /\ LET req == workers[w].req
       IN  \E fName \in ScanChoices(facilityData, req.ConfirmationID) :
            LET out == CASE req.OpCode = OpBookFacility ->
                                handleBookFacility(facilityData, req, now)
                         [] req.OpCode = OpChangeBooking ->
                                handleChangeBooking(facilityData, req, fName)
                         [] req.OpCode = OpCancelBooking ->
                                handleCancelBooking(facilityData, req, fName)
                         [] req.OpCode = OpAddParticipant ->
                                handleAddParticipant(facilityData, req, fName)
            IN  /\ facilityData' = out.store
                /\ workers' = [workers EXCEPT ![w] = [Handled(w, out) EXCEPT
                                                        !.turn = Len(executed) + 1]]
                /\ dataLock' = IF out.notify THEN w ELSE 0
    /\ executed' = Append(executed, RequestKey(workers[w].addr, workers[w].req))
    /\ UNCHANGED <<cli, recvBuf, codec, calc, client, goroutines, mutexes, semantics,
                   monitorSubs, history, now, sent>>

\* notifySubscribers, called by the handler that holds the store's lock:
\* the clock is read before the registry's lock is taken
ReadClock(w) ==
    /\ workers[w].pc = "notify"
    /\ dataLock = w
    /\ workers' = [workers EXCEPT ![w].pc = "pass", ![w].readAt = now]
    /\ UNCHANGED <<cli, recvBuf, codec, calc, client, goroutines, mutexes, semantics,
                   facilityData, monitorSubs, history, now, dataLock, sent, executed>>

\* notifySubscribers of a server that answers the request first: the pass
\* writes the reply, then the callbacks, and the worker ends
NotifyAfterReply(w) ==
    /\ workers[w].pc = "pass"
    /\ dataLock = w
    /\ monitorSubs' = KeptSubs(monitorSubs, workers[w].readAt)
    /\ sent' = Append(sent, [to |-> workers[w].addr, frame |-> workers[w].reply])
                \o CallbackFrames(monitorSubs, workers[w].fac, workers[w].msg,
                                  workers[w].readAt)
    /\ workers' = [workers EXCEPT ![w].pc = "done"]
    /\ dataLock' = 0
    /\ UNCHANGED <<cli, recvBuf, codec, calc, client, goroutines, mutexes, semantics,
                   facilityData, history, now, executed>>

\* notifySubscribers that keeps only the subscriptions it called back
NotifyKeepsCalled(w) ==
    /\ workers[w].pc = "pass"
    /\ dataLock = w
    /\ monitorSubs' = CalledSubs(monitorSubs, workers[w].fac, workers[w].readAt)
    /\ sent' = sent \o CallbackFrames(monitorSubs, workers[w].fac, workers[w].msg,
                                      workers[w].readAt)
    /\ workers' = [workers EXCEPT ![w] =
                        Replied(w, workers[w].reply.Status, workers[w].reply.Data)]
    /\ dataLock' = 0
    /\ UNCHANGED <<cli, recvBuf, codec, calc, client, goroutines, mutexes, semantics,
                   facilityData, history, now, executed>>

\* notifySubscribers: one pass over the registry under its lock, at the
\* clock reading taken before; then the handler returns
Notify(w) ==
    /\ workers[w].pc = "pass"
    /\ dataLock = w
    /\ monitorSubs' = KeptSubs(monitorSubs, workers[w].readAt)
    /\ sent' = sent \o CallbackFrames(monitorSubs, workers[w].fac, workers[w].msg,
                                      workers[w].readAt)
    /\ workers' = [workers EXCEPT ![w] =
                        Replied(w, workers[w].reply.Status, workers[w].reply.Data)]
    /\ dataLock' = 0
    /\ UNCHANGED <<cli, recvBuf, codec, calc, client, goroutines, mutexes, semantics,
                   facilityData, history, now, executed>>

\* handleQuery: the facility is looked up under the store's lock
ExecuteQuery(w) ==
    /\ workers[w].pc = "exec"
    /\ workers[w].req.OpCode = OpQueryAvailability
    /\ dataLock = 0
    /\ LET name == workers[w].req.FacilityName
       IN  IF name \notin DOMAIN facilityData
               THEN workers' = [workers EXCEPT ![w] =
                                    [Replied(w, 0, <<"Error: Facility not found", name>>)
                                        EXCEPT !.turn = Len(executed) + 1]]
               ELSE workers' = [workers EXCEPT ![w].pc = "render", ![w].fac = name,
                                               ![w].turn = Len(executed) + 1]
    /\ executed' = Append(executed, RequestKey(workers[w].addr, workers[w].req))
    /\ UNCHANGED <<cli, recvBuf, codec, calc, client, goroutines, mutexes, semantics,
                   facilityData, monitorSubs, history, now, dataLock, sent>>

\* s with e put in at place i
InsertAt(s, i, e) ==
    [j \in 1..(Len(s) + 1) |-> IF j < i THEN s[j] ELSE IF j = i THEN e ELSE s[j - 1]]

\* what a read of fac.Bookings made without the store's lock can return:
\* the list as it stands, and, while a handleChangeBooking has taken a
\* booking out of it, the slice header read before the removal over the
\* array the removal shifted (the list without the booking, followed by
\* the booking that stood last)
Views(f) ==
    {facilityData[f]}
    \cup {Append(facilityData[f], workers[v].held.last) :
            v \in {u \in DOMAIN workers : workers[u].pc = "moved" /\ workers[u].fac = f}}

\* handleQuery: after the lock has been released, one round of the loop
\* over the requested days: fac.Bookings is read for the 'Current
\* bookings' lines and read again for availableTimingsForDay; the reply is
\* complete after the last day
Render(w) ==
    /\ workers[w].pc = "render"
    /\ LET name == workers[w].fac
           days == workers[w].req.DaysList
           done == workers[w].msg
       IN  IF Len(done) = Len(days)
              THEN workers' = [workers EXCEPT ![w] =
                                  Replied(w, 0, <<"Facility availability", name, done>>)]
              ELSE \E listed \in Views(name), clipped \in Views(name) :
                      LET day == days[Len(done) + 1]
                          section == [day |-> day,
                                      bookings |-> BookingLines(day, listed),
                                      available |-> availableTimingsForDay(day, clipped)]
                      IN  workers' = [workers EXCEPT ![w].msg = Append(done, section)]
    /\ UNCHANGED <<cli, recvBuf, codec, calc, client, goroutines, mutexes, semantics,
                   facilityData, monitorSubs, history, now, dataLock, sent, executed>>

\* handleMonitorRegistration up to the computation of the expiry
ExecuteMonitor(w) ==
    /\ workers[w].pc = "exec"
    /\ workers[w].req.OpCode = OpMonitorAvailability
    /\ dataLock = 0
    /\ LET facName == workers[w].req.FacilityName
       IN  IF facName \notin DOMAIN facilityData
               THEN workers' = [workers EXCEPT ![w] =
                                    [Replied(w, -1, <<"Facility not found", facName>>)
                                        EXCEPT !.turn = Len(executed) + 1]]
               ELSE workers' = [workers EXCEPT ![w].pc = "register",
                                               ![w].fac = facName,
                                               ![w].turn = Len(executed) + 1,
                                               ![w].expiry = now + workers[w].req.MonitorPeriod]
    /\ executed' = Append(executed, RequestKey(workers[w].addr, workers[w].req))
    /\ UNCHANGED <<cli, recvBuf, codec, calc, client, goroutines, mutexes, semantics,
                   facilityData, monitorSubs, history, now, dataLock, sent>>

\* handleMonitorRegistration that keeps one subscription per peer and
\* facility: a second registration replaces the first
RegisterOncePerPeer(w) ==
    /\ workers[w].pc = "register"
    /\ monitorSubs' =
            Append(SelectSeq(monitorSubs,
                             LAMBDA sub : ~(sub.ClientAddr = workers[w].addr
                                            /\ sub.FacilityName = workers[w].fac)),
                   Registration(workers[w].addr, workers[w].fac, workers[w].expiry))
    /\ workers' = [workers EXCEPT ![w] =
                        Replied(w, 0, <<"Monitoring", workers[w].fac,
                                        workers[w].req.MonitorPeriod>>)]
    /\ UNCHANGED <<cli, recvBuf, codec, calc, client, goroutines, mutexes, semantics,
                   facilityData, history, now, dataLock, sent, executed>>

\* handleMonitorRegistration: the subscription is appended under the
\* registry's lock and the handler returns
Register(w) ==
    /\ workers[w].pc = "register"
    /\ monitorSubs' = Append(monitorSubs,
                             Registration(workers[w].addr, workers[w].fac, workers[w].expiry))
    /\ workers' = [workers EXCEPT ![w] =
                        Replied(w, 0, <<"Monitoring", workers[w].fac,
                                        workers[w].req.MonitorPeriod>>)]
    /\ UNCHANGED <<cli, recvBuf, codec, calc, client, goroutines, mutexes, semantics,
                   facilityData, history, now, dataLock, sent, executed>>

\* handlePacket step 5: the reply is stored in the history
StoreHistory(w) ==
    /\ workers[w].pc = "store"
    /\ LET key == RequestKey(workers[w].addr, workers[w].req)
       IN  history' = [k \in DOMAIN history \cup {key} |->
                            IF k = key THEN workers[w].reply ELSE history[k]]
    /\ workers' = [workers EXCEPT ![w].pc = "send"]
    /\ UNCHANGED <<cli, recvBuf, codec, calc, client, goroutines, mutexes, semantics,
                   facilityData, monitorSubs, now, dataLock, sent, executed>>

\* handlePacket step 6 of a server that stays silent about a failure
SendReplyUnlessError(w) ==
    /\ workers[w].pc = "send"
    /\ sent' = IF workers[w].reply.Status = 0
                  THEN Append(sent, [to |-> workers[w].addr, frame |-> workers[w].reply])
                  ELSE sent
    /\ workers' = [workers EXCEPT ![w].pc = "done"]
    /\ UNCHANGED <<cli, recvBuf, codec, calc, client, goroutines, mutexes, semantics,
                   facilityData, monitorSubs, history, now, dataLock, executed>>

\* handlePacket step 6: the reply is written to the socket
SendReply(w) ==
    /\ workers[w].pc = "send"
    /\ sent' = Append(sent, [to |-> workers[w].addr, frame |-> workers[w].reply])
    /\ workers' = [workers EXCEPT ![w].pc = "done"]
    /\ UNCHANGED <<cli, recvBuf, codec, calc, client, goroutines, mutexes, semantics,
                   facilityData, monitorSubs, history, now, dataLock, executed>>

\* the steps of the workers and of the clock
Work ==
    \/ Tick
    \/ \E w \in DOMAIN workers : Lookup(w)
    \/ \E w \in DOMAIN workers : Execute(w)
    \/ \E w \in DOMAIN workers : ReadClock(w)
    \/ \E w \in DOMAIN workers : Notify(w)
    \/ \E w \in DOMAIN workers : ExecuteQuery(w)
    \/ \E w \in DOMAIN workers : Render(w)
    \/ \E w \in DOMAIN workers : ExecuteMonitor(w)
    \/ \E w \in DOMAIN workers : Register(w)
    \/ \E w \in DOMAIN workers : StoreHistory(w)
    \/ \E w \in DOMAIN workers : SendReply(w)

\* the server with its workers running in parallel
Next ==
    \/ \E addr \in {Writer, Watcher} :
            \E req \in Payloads(addr, NextRequestID(addr)) : CanSpawn /\ Receive(addr, req)
    \/ \E w \in DOMAIN workers : CanSpawn /\ Retransmit(w)
    \/ Work

Spec == Init /\ [][Next]_vars

\* the server when datagrams arrive one after another
NextSeq ==
    \/ \E addr \in {Writer, Watcher} :
            \E req \in Payloads(addr, NextRequestID(addr)) : CanSpawnIdle /\ Receive(addr, req)
    \/ \E w \in DOMAIN workers : CanSpawnIdle /\ Retransmit(w)
    \/ Work

SpecSeq == Init /\ [][NextSeq]_vars

\* the steps of the worker of the w-th datagram
WorkerStep(w) ==
    /\ w \in DOMAIN workers
    /\ \/ Lookup(w)
       \/ Execute(w)
       \/ ReadClock(w)
       \/ Notify(w)
       \/ ExecuteQuery(w)
       \/ Render(w)
       \/ ExecuteMonitor(w)
       \/ Register(w)
       \/ StoreHistory(w)
       \/ SendReply(w)

\* the scheduler runs every goroutine that can take a step
Fairness == \A w \in 1..MaxPackets : WF_vars(WorkerStep(w))

\* one datagram for every way through handlePacket and the handlers: of the
\* operations clients start, those that name Lab1's free slot, the seeded
\* booking 10000 moved by an hour, RoomA or no facility, and the datagrams
\* that do not decode
LivePayloads(addr, rid) ==
    {r \in Payloads(addr, rid) :
        /\ r.OpCode = OpBookFacility => r.FacilityName = "Lab1"
        /\ r.OpCode \in {OpChangeBooking, OpCancelBooking, OpAddParticipant}
                => (r.ConfirmationID = 10000 /\ r.OffsetMinutes \in {0, 60})
        /\ r.OpCode = OpMonitorAvailability => r.FacilityName # "Lab1"}

\* the server with its workers running in parallel, for these datagrams
NextLive ==
    \/ \E addr \in {Writer, Watcher} :
            \E req \in LivePayloads(addr, NextRequestID(addr)) : CanSpawn /\ Receive(addr, req)
    \/ \E w \in DOMAIN workers : CanSpawn /\ Retransmit(w)
    \/ Work

\* the server with parallel workers under a fair scheduler
SpecLive == Init /\ [][NextLive]_vars /\ Fairness

\* ------------------------------------------- handleChangeBooking in two steps
\* the Change of worker w finds its booking at facility fName and its new
\* end after its new start, so that it goes on to take the booking out
ChangePasses(w, fName) ==
    /\ fName \in FoundIn(facilityData, workers[w].req.ConfirmationID)
    /\ LET old == facilityData[fName][IndexOf(facilityData[fName],
                                             workers[w].req.ConfirmationID)]
       IN  AddInt32(EndAbs(old), workers[w].req.OffsetMinutes)
                > AddInt32(StartAbs(old), workers[w].req.OffsetMinutes)

\* processOperation for Book, Cancel and AddParticipant, and for a Change
\* that returns before it has touched the list (status -1)
ExecuteUnmoved(w) ==
    /\ Execute(w)
    /\ workers[w].req.OpCode = OpChangeBooking => workers'[w].reply.Status = -1

\* handleChangeBooking from the lock to the removal of the old booking:
\* oldFac.Bookings = append(oldFac.Bookings[:oldIndex], oldFac.Bookings[oldIndex+1:]...)
TakeOut(w) ==
    /\ workers[w].pc = "exec"
    /\ workers[w].req.OpCode = OpChangeBooking
    /\ dataLock = 0
    /\ \E fName \in ScanChoices(facilityData, workers[w].req.ConfirmationID) :
          /\ ChangePasses(w, fName)
          /\ LET bks == facilityData[fName]
                 oldIndex == IndexOf(bks, workers[w].req.ConfirmationID)
             IN  /\ facilityData' = [facilityData EXCEPT ![fName] = RemoveAt(bks, oldIndex)]
                 /\ workers' = [workers EXCEPT
                                    ![w].pc = "moved", ![w].fac = fName,
                                    ![w].turn = Len(executed) + 1,
                                    ![w].held = [index |-> oldIndex,
                                                 booking |-> bks[oldIndex],
                                                 last |-> bks[Len(bks)]]]
    /\ dataLock' = w
    /\ executed' = Append(executed, RequestKey(workers[w].addr, workers[w].req))
    /\ UNCHANGED <<cli, recvBuf, codec, calc, client, goroutines, mutexes, semantics,
                   monitorSubs, history, now, sent>>

\* handleChangeBooking from the collision loop on: the old booking is put
\* back behind the others (status 1) or the updated one is appended and
\* the handler goes on to notifySubscribers
PutBack(w) ==
    /\ workers[w].pc = "moved"
    /\ dataLock = w
    /\ LET fName == workers[w].fac
           before == [facilityData EXCEPT
                        ![fName] = InsertAt(@, workers[w].held.index, workers[w].held.booking)]
           out == handleChangeBooking(before, workers[w].req, fName)
       IN  /\ facilityData' = out.store
           /\ workers' = [workers EXCEPT ![w] = [Handled(w, out) EXCEPT !.held = << >>]]
           /\ dataLock' = IF out.notify THEN w ELSE 0
    /\ UNCHANGED <<cli, recvBuf, codec, calc, client, goroutines, mutexes, semantics,
                   monitorSubs, history, now, sent, executed>>

\* the datagrams of a Query of RoomA's Monday and Tuesday, of Changes of
\* the seeded booking 10000 and of an id no booking has, and of a
\* registration for RoomA
RacePayloads(addr, rid) ==
    {r \in Payloads(addr, rid) :
        /\ ~r.Cut
        /\ r.OpCode \in {OpQueryAvailability, OpChangeBooking, OpMonitorAvailability}
        /\ r.OpCode # OpChangeBooking => r.FacilityName = "RoomA"}

\* the server with parallel workers, the steps of handleChangeBooking
\* between which another goroutine can run told apart
NextRace ==
    \/ \E addr \in {Writer, Watcher} :
            \E req \in RacePayloads(addr, NextRequestID(addr)) : CanSpawn /\ Receive(addr, req)
    \/ \E w \in DOMAIN workers : CanSpawn /\ Retransmit(w)
    \/ Tick
    \/ \E w \in DOMAIN workers : Lookup(w)
    \/ \E w \in DOMAIN workers : ExecuteUnmoved(w)
    \/ \E w \in DOMAIN workers : TakeOut(w)
    \/ \E w \in DOMAIN workers : PutBack(w)
    \/ \E w \in DOMAIN workers : ReadClock(w)
    \/ \E w \in DOMAIN workers : Notify(w)
    \/ \E w \in DOMAIN workers : ExecuteQuery(w)
    \/ \E w \in DOMAIN workers : Render(w)
    \/ \E w \in DOMAIN workers : ExecuteMonitor(w)
    \/ \E w \in DOMAIN workers : Register(w)
    \/ \E w \in DOMAIN workers : StoreHistory(w)
    \/ \E w \in DOMAIN workers : SendReply(w)

SpecRace == Init /\ [][NextRace]_vars

\* ---------------------------------------------------------------- the client
\* the retry budget of SendRequest
maxRetries == 4

\* MarshalRequest returns no error
Marshals(req) == KnownOp(req.OpCode) /\ Len(req.DaysList) <= 255

\* the requests SendRequest is called with
Calls == {r \in Payloads(Writer, 1) \cup Payloads(Watcher, 1) : ~r.Cut}

\* the datagrams that can be waiting on the client's socket while it sends
\* data: the reply to it, a reply to the request before it, a callback, each
\* whole or cut short
Arrivals(data) ==
    {[frame |-> f, Cut |-> c] :
        f \in {Reply(data, 0, <<"ok">>), Reply(data, -1, <<"error">>),
               Reply([data EXCEPT !.RequestID = 0], 0, <<"ok">>),
               Callback("RoomA", <<"Booking canceled", 10000>>)},
        c \in BOOLEAN}

\* the server does not take part in the client's steps
ServerIdle ==
    UNCHANGED <<cli, recvBuf, goroutines, mutexes, semantics, facilityData, monitorSubs,
                history, now, workers, dataLock, sent, executed, codec, calc>>

\* SendRequest is called: the request is marshalled once, before the loop
SendRequest(req, demo) ==
    /\ client.pc = "idle"
    /\ client' = IF Marshals(req)
                    THEN [client EXCEPT !.pc = "write", !.data = req, !.PacketDemo = demo]
                    ELSE [client EXCEPT !.pc = "failed", !.PacketDemo = demo]
    /\ ServerIdle

\* an attempt that writes a datagram with a request-id of its own
ClientWriteFreshID ==
    /\ client.pc = "write"
    /\ \E ok \in BOOLEAN :
          client' = IF ok
                       THEN [client EXCEPT
                                !.pc = "read",
                                !.wrote = Append(@, [client.data EXCEPT
                                                        !.RequestID = @ + client.attempt])]
                       ELSE [client EXCEPT !.pc = "failed"]
    /\ ServerIdle

\* one attempt of the loop: c.Conn.Write(data), which can fail
ClientWrite ==
    /\ client.pc = "write"
    /\ \E ok \in BOOLEAN :
          client' = IF ok
                       THEN [client EXCEPT !.pc = "read", !.wrote = Append(@, client.data)]
                       ELSE [client EXCEPT !.pc = "failed"]
    /\ ServerIdle

\* continue: the attempt ended as outcome; the loop goes on while attempts
\* are left and otherwise SendRequest returns "no reply after 4 attempts"
Continue(outcome) ==
    [client EXCEPT !.attempt = @ + 1,
                   !.outcomes = Append(@, outcome),
                   !.pc = IF client.attempt + 1 < maxRetries THEN "write" ELSE "failed"]

\* a read whose datagram is dropped on a low draw whatever PacketDemo is
ClientReadAlwaysDraws ==
    /\ client.pc = "read"
    /\ \/ \E a \in Arrivals(client.data), low \in BOOLEAN :
             client' = IF low
                          THEN Continue("dropped")
                       ELSE IF a.Cut
                          THEN [client EXCEPT !.pc = "failed",
                                              !.outcomes = Append(@, "undecodable")]
                       ELSE [client EXCEPT !.pc = "returned",
                                           !.outcomes = Append(@, "accepted"),
                                           !.reply = a.frame]
       \/ client' = Continue("timeout")
       \/ client' = [client EXCEPT !.pc = "failed", !.outcomes = Append(@, "readError")]
    /\ ServerIdle

\* the attempt's ReadFromUDP under the deadline: a datagram (dropped when
\* the loss demonstration draws below 0.5, else decoded), a timeout, or
\* another error
ClientRead ==
    /\ client.pc = "read"
    /\ \/ \E a \in Arrivals(client.data), low \in BOOLEAN :
             client' = IF client.PacketDemo /\ low
                          THEN Continue("dropped")
                       ELSE IF a.Cut
                          THEN [client EXCEPT !.pc = "failed",
                                              !.outcomes = Append(@, "undecodable")]
                       ELSE [client EXCEPT !.pc = "returned",
                                           !.outcomes = Append(@, "accepted"),
                                           !.reply = a.frame]
       \/ client' = Continue("timeout")
       \/ client' = [client EXCEPT !.pc = "failed", !.outcomes = Append(@, "readError")]
    /\ ServerIdle

NextClient ==
    \/ \E req \in Calls, demo \in BOOLEAN : SendRequest(req, demo)
    \/ ClientWrite
    \/ ClientRead

\* one call of SendRequest; Write and the read under its deadline return
SpecClient == Init /\ [][NextClient]_vars /\ WF_vars(ClientWrite \/ ClientRead)

\* ----------------------------------------------------------------- the codec
\* Strings and byte slices are sequences of bytes (0..255); an empty or nil
\* slice and the empty string are << >>.

\* binary.BigEndian.PutUint16 / PutUint32 / PutUint64: the n low bytes of v,
\* most significant first
RECURSIVE PutUint(_, _)
PutUint(v, n) == IF n = 0 THEN << >> ELSE Append(PutUint(v \div 256, n - 1), v % 256)

\* binary.BigEndian.Uint16 / Uint32 / Uint64
RECURSIVE Uint(_)
Uint(bytes) ==
    IF bytes = << >> THEN 0
    ELSE 256 * Uint(SubSeq(bytes, 1, Len(bytes) - 1)) + bytes[Len(bytes)]

\* PutUint32(tmp4, uint32(v)) for an int32 v: the two's-complement bytes
PutInt32(v) ==
    IF v >= 0 THEN PutUint(v, 4)
    ELSE [PutUint((v + 2147483647) + 1, 4) EXCEPT ![1] = @ + 128]

\* a decoder that reads the four bytes as a magnitude and drops the sign bit
Int32Unsigned(bytes) == Uint([bytes EXCEPT ![1] = @ % 128])

\* int32(binary.BigEndian.Uint32(bytes))
Int32(bytes) ==
    IF bytes[1] >= 128
        THEN (Uint([bytes EXCEPT ![1] = @ - 128]) - 2147483647) - 1
        ELSE Uint(bytes)

\* writeString: uint16(len(s)) in two bytes, then the bytes of s
writeString(buf, s) == buf \o PutUint(Len(s) % 65536, 2) \o s

\* a readString that returns the bytes that are there when fewer than the
\* declared length remain
readStringLenient(data, offset) ==
    IF offset + 2 > Len(data)
        THEN [err |-> TRUE, str |-> << >>, offset |-> offset]
    ELSE LET length == Uint(SubSeq(data, offset + 1, offset + 2))
             last == IF offset + 2 + length > Len(data) THEN Len(data)
                     ELSE offset + 2 + length
         IN  [err |-> FALSE, str |-> SubSeq(data, offset + 3, last), offset |-> last]

\* readString(data, offset), offset counted from 0 as in the source
readString(data, offset) ==
    IF offset + 2 > Len(data)
        THEN [err |-> TRUE, str |-> << >>, offset |-> offset]
    ELSE LET length == Uint(SubSeq(data, offset + 1, offset + 2))
         IN  IF offset + 2 + length > Len(data)
                THEN [err |-> TRUE, str |-> << >>, offset |-> offset + 2]
                ELSE [err |-> FALSE,
                      str |-> SubSeq(data, offset + 3, offset + 2 + length),
                      offset |-> offset + 2 + length]

\* var req RequestMessage: every field zero
ZeroRequest ==
    [OpCode |-> 0, RequestID |-> 0, FacilityName |-> << >>, DaysList |-> << >>,
     StartDay |-> 0, StartHour |-> 0, StartMinute |-> 0,
     EndDay |-> 0, EndHour |-> 0, EndMinute |-> 0,
     ConfirmationID |-> << >>, OffsetMinutes |-> 0, MonitorPeriod |-> 0,
     ParticipantName |-> << >>]

\* var rep ReplyMessage
ZeroReply == [RequestID |-> 0, OpCode |-> 0, Status |-> 0, Data |-> << >>]

MarshalRequest(req) ==
    LET head == <<req.OpCode>> \o PutUint(req.RequestID, 8)
    IN  IF req.OpCode = OpQueryAvailability THEN
            IF Len(req.DaysList) > 255 THEN [err |-> TRUE, buf |-> << >>]
            ELSE [err |-> FALSE,
                  buf |-> writeString(head, req.FacilityName)
                            \o <<Len(req.DaysList)>> \o req.DaysList]
        ELSE IF req.OpCode = OpBookFacility THEN
            [err |-> FALSE,
             buf |-> writeString(head, req.FacilityName)
                       \o <<req.StartDay, req.StartHour, req.StartMinute,
                            req.EndDay, req.EndHour, req.EndMinute>>]
        ELSE IF req.OpCode = OpChangeBooking THEN
            [err |-> FALSE,
             buf |-> writeString(head, req.ConfirmationID) \o PutInt32(req.OffsetMinutes)]
        ELSE IF req.OpCode = OpMonitorAvailability THEN
            [err |-> FALSE,
             buf |-> writeString(head, req.FacilityName) \o PutUint(req.MonitorPeriod, 4)]
        ELSE IF req.OpCode = OpCancelBooking THEN
            [err |-> FALSE, buf |-> writeString(head, req.ConfirmationID)]
        ELSE IF req.OpCode = OpAddParticipant THEN
            [err |-> FALSE,
             buf |-> writeString(writeString(head, req.ConfirmationID), req.ParticipantName)]
        ELSE [err |-> TRUE, buf |-> << >>]

\* the result of UnmarshalRequest / UnmarshalReply
Failed(msg) == [err |-> TRUE, msg |-> msg]
Decoded(msg) == [err |-> FALSE, msg |-> msg]

UnmarshalRequest(data) ==
    IF Len(data) < 1 THEN Failed(ZeroRequest)
    ELSE LET r1 == [ZeroRequest EXCEPT !.OpCode = data[1]] IN
    IF 1 + 8 > Len(data) THEN Failed(r1)
    ELSE LET req == [r1 EXCEPT !.RequestID = Uint(SubSeq(data, 2, 9))] IN
    IF req.OpCode \in {OpQueryAvailability, OpBookFacility, OpMonitorAvailability} THEN
        LET s == readString(data, 9)
            named == [req EXCEPT !.FacilityName = s.str]
            offset == s.offset
        IN  IF s.err THEN Failed(req)
            ELSE IF req.OpCode = OpQueryAvailability THEN
                IF offset + 1 > Len(data) THEN Failed(named)
                ELSE LET ndays == data[offset + 1] IN
                     IF offset + 1 + ndays > Len(data) THEN Failed(named)
                     ELSE Decoded([named EXCEPT
                            !.DaysList = SubSeq(data, offset + 2, offset + 1 + ndays)])
            ELSE IF req.OpCode = OpBookFacility THEN
                IF offset + 6 > Len(data) THEN Failed(named)
                ELSE Decoded([named EXCEPT
                        !.StartDay = data[offset + 1], !.StartHour = data[offset + 2],
                        !.StartMinute = data[offset + 3], !.EndDay = data[offset + 4],
                        !.EndHour = data[offset + 5], !.EndMinute = data[offset + 6]])
            ELSE
                IF offset + 4 > Len(data) THEN Failed(named)
                ELSE Decoded([named EXCEPT
                        !.MonitorPeriod = Uint(SubSeq(data, offset + 1, offset + 4))])
    ELSE IF req.OpCode \in {OpChangeBooking, OpCancelBooking, OpAddParticipant} THEN
        LET s == readString(data, 9)
            named == [req EXCEPT !.ConfirmationID = s.str]
            offset == s.offset
        IN  IF s.err THEN Failed(req)
            ELSE IF req.OpCode = OpChangeBooking THEN
                IF offset + 4 > Len(data) THEN Failed(named)
                ELSE Decoded([named EXCEPT
                        !.OffsetMinutes = Int32(SubSeq(data, offset + 1, offset + 4))])
            ELSE IF req.OpCode = OpCancelBooking THEN Decoded(named)
            ELSE LET p == readString(data, offset)
                 IN  IF p.err THEN Failed(named)
                     ELSE Decoded([named EXCEPT !.ParticipantName = p.str])
    ELSE Failed(req)

\* MarshalReply never returns an error
MarshalReply(rep) ==
    [err |-> FALSE,
     buf |-> writeString(<<rep.OpCode>> \o PutUint(rep.RequestID, 8) \o PutInt32(rep.Status),
                         rep.Data)]

UnmarshalReply(data) ==
    IF Len(data) < 1 THEN Failed(ZeroReply)
    ELSE LET r1 == [ZeroReply EXCEPT !.OpCode = data[1]] IN
    IF 1 + 8 > Len(data) THEN Failed(r1)
    ELSE LET r2 == [r1 EXCEPT !.RequestID = Uint(SubSeq(data, 2, 9))] IN
    IF 9 + 4 > Len(data) THEN Failed(r2)
    ELSE LET rep == [r2 EXCEPT !.Status = Int32(SubSeq(data, 10, 13))]
             s == readString(data, 13)
         IN  IF s.err THEN Failed(rep) ELSE Decoded([rep EXCEPT !.Data = s.str])

\* the strings put on the wire: "", "R", "RA"
WireStrings == {<< >>, <<82>>, <<82, 65>>}
\* request-ids: the first ones and the largest the model's integers hold
WireIDs == {0, 258, 2147483647}
\* int32 values: both ends of the range, -1, 0 and a small one
WireInt32s == {(-2147483647) - 1, -1, 0, 60, 2147483647}

\* the requests handed to MarshalRequest: one or more per opcode with the
\* fields of that opcode set, a Cancel that also carries a field Cancel does
\* not use, and opcodes outside 1..6
WireRequestsWith(rid) ==
    {[ZeroRequest EXCEPT !.OpCode = OpQueryAvailability, !.RequestID = rid,
                         !.FacilityName = s, !.DaysList = d] :
        s \in WireStrings, d \in {<< >>, <<0>>, <<6, 0>>}}
    \cup {[ZeroRequest EXCEPT !.OpCode = OpBookFacility, !.RequestID = rid,
                         !.FacilityName = s,
                         !.StartDay = t[1], !.StartHour = t[2], !.StartMinute = t[3],
                         !.EndDay = t[4], !.EndHour = t[5], !.EndMinute = t[6]] :
        s \in WireStrings, t \in {<<0, 9, 0, 0, 10, 0>>, <<255, 255, 255, 0, 0, 0>>}}
    \cup {[ZeroRequest EXCEPT !.OpCode = OpChangeBooking, !.RequestID = rid,
                         !.ConfirmationID = s, !.OffsetMinutes = o] :
        s \in WireStrings, o \in WireInt32s}
    \cup {[ZeroRequest EXCEPT !.OpCode = OpMonitorAvailability, !.RequestID = rid,
                         !.FacilityName = s, !.MonitorPeriod = p] :
        s \in WireStrings, p \in {0, 65541, 2147483647}}
    \cup {[ZeroRequest EXCEPT !.OpCode = OpCancelBooking, !.RequestID = rid,
                         !.ConfirmationID = s, !.FacilityName = f] :
        s \in WireStrings, f \in {<< >>, <<82>>}}
    \cup {[ZeroRequest EXCEPT !.OpCode = OpAddParticipant, !.RequestID = rid,
                         !.ConfirmationID = s, !.ParticipantName = p] :
        s \in WireStrings, p \in WireStrings}
    \cup {[ZeroRequest EXCEPT !.OpCode = op, !.RequestID = rid] : op \in {0, 7}}

WireRequests == UNION {WireRequestsWith(rid) : rid \in WireIDs}

\* the replies handed to MarshalReply: request opcodes, the callback opcode
\* and opcodes that are neither
WireReplies ==
    {[RequestID |-> rid, OpCode |-> op, Status |-> st, Data |-> d] :
        rid \in WireIDs, op \in {0, OpBookFacility, 7, OpCallback, 255},
        st \in WireInt32s, d \in WireStrings}

\* the offset (counted from 0) of the first length-prefixed string of a frame
FirstString(side) == IF side = "request" THEN 9 ELSE 13

\* MarshalRequest(req) is called
EncodeRequest(req) ==
    /\ codec.pc = "idle"
    /\ LET m == MarshalRequest(req)
       IN  codec' = [pc |-> IF m.err THEN "failed" ELSE "framed", side |-> "request",
                     msg |-> req, data |-> m.buf, how |-> "whole"]
    /\ UNCHANGED <<cli, recvBuf, calc, client, goroutines, mutexes, semantics,
                   facilityData, monitorSubs, history, now, workers, dataLock, sent,
                   executed>>

\* MarshalReply(rep) is called
EncodeReply(rep) ==
    /\ codec.pc = "idle"
    /\ LET m == MarshalReply(rep)
       IN  codec' = [pc |-> IF m.err THEN "failed" ELSE "framed", side |-> "reply",
                     msg |-> rep, data |-> m.buf, how |-> "whole"]
    /\ UNCHANGED <<cli, recvBuf, calc, client, goroutines, mutexes, semantics,
                   facilityData, monitorSubs, history, now, workers, dataLock, sent,
                   executed>>

\* the reader is handed only the first n bytes of the frame, for any n
\* below the frame's length
Cut ==
    /\ codec.pc = "framed" /\ codec.how = "whole"
    /\ \E n \in 0..(Len(codec.data) - 1) :
          codec' = [codec EXCEPT !.data = SubSeq(@, 1, n), !.how = "cut"]
    /\ UNCHANGED <<cli, recvBuf, calc, client, goroutines, mutexes, semantics,
                   facilityData, monitorSubs, history, now, workers, dataLock, sent,
                   executed>>

\* the reader is handed the frame with the declared length of its first
\* string raised beyond the bytes that follow
Overstate ==
    /\ codec.pc = "framed" /\ codec.how = "whole"
    /\ codec' = [codec EXCEPT !.data[FirstString(codec.side) + 1] = 255,
                              !.how = "overstated"]
    /\ UNCHANGED <<cli, recvBuf, calc, client, goroutines, mutexes, semantics,
                   facilityData, monitorSubs, history, now, workers, dataLock, sent,
                   executed>>

\* the server calls UnmarshalRequest on the bytes it read
DecodeRequest ==
    /\ codec.pc = "framed" /\ codec.side = "request"
    /\ codec' = [pc |-> "decoded", side |-> codec.side, msg |-> codec.msg,
                 data |-> codec.data, how |-> codec.how,
                 out |-> UnmarshalRequest(codec.data)]
    /\ UNCHANGED <<cli, recvBuf, calc, client, goroutines, mutexes, semantics,
                   facilityData, monitorSubs, history, now, workers, dataLock, sent,
                   executed>>

\* the client calls UnmarshalReply on the bytes it read
DecodeReply ==
    /\ codec.pc = "framed" /\ codec.side = "reply"
    /\ codec' = [pc |-> "decoded", side |-> codec.side, msg |-> codec.msg,
                 data |-> codec.data, how |-> codec.how,
                 out |-> UnmarshalReply(codec.data)]
    /\ UNCHANGED <<cli, recvBuf, calc, client, goroutines, mutexes, semantics,
                   facilityData, monitorSubs, history, now, workers, dataLock, sent,
                   executed>>

NextCodec ==
    \/ \E req \in WireRequests : EncodeRequest(req)
    \/ \E rep \in WireReplies : EncodeReply(rep)
    \/ Cut
    \/ Overstate
    \/ DecodeRequest
    \/ DecodeReply

\* one message through the codec
SpecCodec == Init /\ [][NextCodec]_vars

\* --------------------------------------------- conversions and rendering
\* bookings a facility can hold after Book requests with fields of the
\* week: within a day, ending at midnight, covering a day, over two days
\* ("BKG-<n>" is n)
PoolBookings ==
    {Booking(1, 0, 9, 0, 0, 10, 0, << >>),
     Booking(2, 0, 23, 0, 1, 0, 0, << >>),
     Booking(3, 1, 14, 0, 1, 15, 30, <<"Ann">>),
     Booking(4, 0, 0, 0, 1, 0, 0, << >>),
     Booking(5, 1, 0, 0, 2, 12, 0, << >>),
     Booking(6, 6, 0, 0, 7, 0, 0, << >>)}

\* the booking lists handleQuery is given: up to two bookings that
\* handleBookFacility accepted one after the other, in the order accepted
PoolLists ==
    {<< >>} \cup {<<a>> : a \in PoolBookings}
    \cup {p \in PoolBookings \X PoolBookings :
              ~timesOverlap(StartAbs(p[2]), EndAbs(p[2]), StartAbs(p[1]), EndAbs(p[1]))}

\* the days of the week
WeekDays == 0..6

\* toAbsoluteMinutes is applied to a (day, hour, minute) of the week and
\* fromAbsoluteMinutes to its result
ConvertFields ==
    /\ calc.pc = "idle"
    /\ \E day \in WeekDays, hour \in 0..23, minute \in 0..59 :
          LET abs == toAbsoluteMinutes(day, hour, minute)
          IN  calc' = [pc |-> "joined", fields |-> <<day, hour, minute>>, abs |-> abs,
                       back |-> fromAbsoluteMinutes(abs)]
    /\ UNCHANGED <<cli, recvBuf, codec, client, goroutines, mutexes, semantics,
                   facilityData, monitorSubs, history, now, workers, dataLock, sent,
                   executed>>

\* fromAbsoluteMinutes is applied to a minute n of the week and
\* toAbsoluteMinutes to its result
ConvertMinutes ==
    /\ calc.pc = "idle"
    /\ \E n \in 0..10079 :
          LET f == fromAbsoluteMinutes(n)
          IN  calc' = [pc |-> "split", abs |-> n, fields |-> f,
                       back |-> toAbsoluteMinutes(f[1], f[2], f[3])]
    /\ UNCHANGED <<cli, recvBuf, codec, client, goroutines, mutexes, semantics,
                   facilityData, monitorSubs, history, now, workers, dataLock, sent,
                   executed>>

\* handleQuery renders one day of a facility that holds a list of bookings
QueryDay ==
    /\ calc.pc = "idle"
    /\ \E bookings \in PoolLists, day \in WeekDays :
          calc' = [pc |-> "rendered", bookings |-> bookings, day |-> day,
                   out |-> RenderQuery("RoomA", <<day>>, bookings)]
    /\ UNCHANGED <<cli, recvBuf, codec, client, goroutines, mutexes, semantics,
                   facilityData, monitorSubs, history, now, workers, dataLock, sent,
                   executed>>

NextCalc == ConvertFields \/ ConvertMinutes \/ QueryDay

\* one conversion or one rendering
SpecCalc == Init /\ [][NextCalc]_vars

\* ------------------------------------------------------------ long strings
\* string lengths at and beyond the largest a u16 prefix holds
LongLengths == {65535, 65536, 65537}

\* a string of n bytes
Filler(n) == [i \in 1..n |-> 65]

\* requests whose facility name or participant name is that long
LongRequests ==
    {[ZeroRequest EXCEPT !.OpCode = OpQueryAvailability, !.RequestID = 1,
                         !.FacilityName = Filler(n), !.DaysList = <<0>>] :
        n \in LongLengths}
    \cup {[ZeroRequest EXCEPT !.OpCode = OpAddParticipant, !.RequestID = 1,
                         !.ConfirmationID = <<82>>, !.ParticipantName = Filler(n)] :
        n \in LongLengths}

\* replies whose Data is that long
LongReplies ==
    {[ZeroReply EXCEPT !.OpCode = OpQueryAvailability, !.RequestID = 1,
                       !.Data = Filler(n)] : n \in LongLengths}

NextFrames ==
    \/ \E req \in WireRequests \cup LongRequests : EncodeRequest(req)
    \/ \E rep \in WireReplies \cup LongReplies : EncodeReply(rep)

\* one message, of any length, through the encoder
SpecFrames == Init /\ [][NextFrames]_vars

\* ----------------------------------------------------- the server's mutexes
\* goroutines running handlePacket at once
MaxGoroutines == 3

Lock(m) == <<"Lock", m>>
Unlock(m) == <<"Unlock", m>>

\* handleQuery: the store lock around the facility lookup only
LocksOfQuery == <<Lock("dataLock"), Unlock("dataLock")>>

\* handleBookFacility, handleChangeBooking, handleCancelBooking and
\* handleAddParticipant: the store lock until return (defer); when the
\* operation succeeds (ok) notifySubscribers takes the registry lock inside
LocksOfUpdate(ok) ==
    IF ok THEN <<Lock("dataLock"), Lock("monitorLock"),
                 Unlock("monitorLock"), Unlock("dataLock")>>
          ELSE <<Lock("dataLock"), Unlock("dataLock")>>

\* a registration that holds the registry lock while it looks the
\* facility up under the store lock
LocksOfMonitorRegistrationNested(ok) ==
    <<Lock("monitorLock"), Lock("dataLock"), Unlock("dataLock"), Unlock("monitorLock")>>

\* handleMonitorRegistration: the store lock around the facility lookup,
\* released before the registry lock is taken for the append (ok)
LocksOfMonitorRegistration(ok) ==
    IF ok THEN <<Lock("dataLock"), Unlock("dataLock"),
                 Lock("monitorLock"), Unlock("monitorLock")>>
          ELSE <<Lock("dataLock"), Unlock("dataLock")>>

\* processOperation: the handler of the opcode; none for an unknown one
LocksOfOperation(op, ok) ==
    IF op = OpQueryAvailability THEN LocksOfQuery
    ELSE IF op = OpMonitorAvailability THEN LocksOfMonitorRegistration(ok)
    ELSE IF op \in {OpBookFacility, OpChangeBooking, OpCancelBooking, OpAddParticipant}
        THEN LocksOfUpdate(ok)
    ELSE << >>

\* handlePacket: under at-most-once the cache lock around the lookup and,
\* unless the lookup hit, around the insertion after processOperation
LocksOfPacket(amo, op, hit, ok) ==
    IF amo
        THEN IF hit
            THEN <<Lock("historyLock"), Unlock("historyLock")>>
            ELSE <<Lock("historyLock"), Unlock("historyLock")>>
                   \o LocksOfOperation(op, ok)
                   \o <<Lock("historyLock"), Unlock("historyLock")>>
        ELSE LocksOfOperation(op, ok)

\* main starts a goroutine for a datagram of opcode op; hit and ok are what
\* the cache lookup and the handler's checks will find
Go(op, hit, ok) ==
    /\ Len(goroutines) < MaxGoroutines
    /\ goroutines' = Append(goroutines,
                        [steps |-> LocksOfPacket(semantics = SemanticsAtMostOnce,
                                                 op, hit, ok),
                         at |-> 1])
    /\ UNCHANGED <<cli, recvBuf, mutexes, codec, calc, client, semantics, facilityData,
                   monitorSubs, history, now, workers, dataLock, sent, executed>>

\* goroutine g has returned from handlePacket
Returned(g) == goroutines[g].at > Len(goroutines[g].steps)

\* goroutine g is at m.Lock()
WaitsFor(g, m) == ~Returned(g) /\ goroutines[g].steps[goroutines[g].at] = Lock(m)

\* m.Lock() returns in g: m was not held
Acquire(g) ==
    /\ \E m \in DOMAIN mutexes :
          /\ WaitsFor(g, m)
          /\ mutexes[m] = 0
          /\ mutexes' = [mutexes EXCEPT ![m] = g]
    /\ goroutines' = [goroutines EXCEPT ![g].at = @ + 1]
    /\ UNCHANGED <<cli, recvBuf, codec, calc, client, semantics, facilityData,
                   monitorSubs, history, now, workers, dataLock, sent, executed>>

\* g runs to its m.Unlock()
Release(g) ==
    /\ \E m \in DOMAIN mutexes :
          /\ ~Returned(g) /\ goroutines[g].steps[goroutines[g].at] = Unlock(m)
          /\ mutexes' = [mutexes EXCEPT ![m] = 0]
    /\ goroutines' = [goroutines EXCEPT ![g].at = @ + 1]
    /\ UNCHANGED <<cli, recvBuf, codec, calc, client, semantics, facilityData,
                   monitorSubs, history, now, workers, dataLock, sent, executed>>

NextLocks ==
    \/ \E op \in 1..7, hit \in BOOLEAN, ok \in BOOLEAN : Go(op, hit, ok)
    \/ \E g \in DOMAIN goroutines : Acquire(g)
    \/ \E g \in DOMAIN goroutines : Release(g)

\* the goroutines are scheduled fairly and a sync.Mutex is handed to a
\* goroutine that keeps waiting for it
SpecLocks ==
    /\ Init /\ [][NextLocks]_vars
    /\ \A g \in 1..MaxGoroutines :
          /\ WF_vars(g \in DOMAIN goroutines /\ Release(g))
          /\ SF_vars(g \in DOMAIN goroutines /\ Acquire(g))

\* ------------------------------------------------- main's receive buffer
\* datagrams main reads
MaxReads == 3

\* the requests whose frames reach the server
BufRequests ==
    {[ZeroRequest EXCEPT !.OpCode = OpQueryAvailability, !.RequestID = 1,
                         !.FacilityName = s, !.DaysList = d] :
        s \in {<<82>>, <<82, 65>>}, d \in {<<0>>, <<6, 0>>}}
    \cup {[ZeroRequest EXCEPT !.OpCode = OpBookFacility, !.RequestID = 1,
                         !.FacilityName = <<82>>,
                         !.StartDay = t[1], !.StartHour = t[2], !.StartMinute = t[3],
                         !.EndDay = t[4], !.EndHour = t[5], !.EndMinute = t[6]] :
        t \in {<<0, 9, 0, 0, 10, 0>>, <<1, 14, 0, 1, 15, 30>>}}
    \cup {[ZeroRequest EXCEPT !.OpCode = OpCancelBooking, !.RequestID = 1,
                         !.ConfirmationID = <<82, 65>>]}

\* conn.ReadFromUDP(buf) returns the frame of req: its n bytes replace the
\* first n bytes of buf, the rest of buf keeps what earlier reads left, and
\* main starts handlePacket(buf[:n], clientAddr) in a goroutine of its own
ReadFromUDP(req) ==
    /\ Len(recvBuf.handlers) < MaxReads
    /\ LET frame == MarshalRequest(req).buf
       IN  recvBuf' = [data |-> frame \o SubSeq(recvBuf.data, Len(frame) + 1, Len(recvBuf.data)),
                   handlers |-> Append(recvBuf.handlers,
                                    [pc |-> "spawned", n |-> Len(frame), own |-> req,
                                     out |-> Failed(ZeroRequest), used |-> << >>])]
    /\ UNCHANGED <<cli, goroutines, mutexes, codec, calc, client, semantics,
                   facilityData, monitorSubs, history, now, workers, dataLock, sent,
                   executed>>

\* handlePacket of goroutine h calls UnmarshalRequest(data) on its slice of
\* buf as buf stands now; the strings are copied out of it, the day list
\* of a Query stays a slice of buf
UnmarshalData(h) ==
    /\ recvBuf.handlers[h].pc = "spawned"
    /\ LET out == UnmarshalRequest(SubSeq(recvBuf.data, 1, recvBuf.handlers[h].n))
       IN  recvBuf' = [recvBuf EXCEPT
                      !.handlers[h].out = out,
                      !.handlers[h].pc =
                          IF ~out.err /\ out.msg.OpCode = OpQueryAvailability
                              THEN "days" ELSE "done"]
    /\ UNCHANGED <<cli, goroutines, mutexes, codec, calc, client, semantics,
                   facilityData, monitorSubs, history, now, workers, dataLock, sent,
                   executed>>

\* one round of handleQuery's loop over days: the next element of the day
\* list is read from buf, where the list lies behind the opcode, the
\* request-id, the facility name with its prefix and the day count
RangeDays(h) ==
    /\ recvBuf.handlers[h].pc = "days"
    /\ LET msg == recvBuf.handlers[h].out.msg
           used == recvBuf.handlers[h].used
       IN  IF Len(used) = Len(msg.DaysList)
              THEN recvBuf' = [recvBuf EXCEPT !.handlers[h].pc = "done"]
              ELSE recvBuf' = [recvBuf EXCEPT !.handlers[h].used =
                              Append(used, recvBuf.data[12 + Len(msg.FacilityName)
                                                       + Len(used) + 1])]
    /\ UNCHANGED <<cli, goroutines, mutexes, codec, calc, client, semantics,
                   facilityData, monitorSubs, history, now, workers, dataLock, sent,
                   executed>>

NextBuf ==
    \/ \E req \in BufRequests : ReadFromUDP(req)
    \/ \E h \in DOMAIN recvBuf.handlers : UnmarshalData(h)
    \/ \E h \in DOMAIN recvBuf.handlers : RangeDays(h)

\* the read loop and the goroutines it starts, over the one buffer
SpecBuf == Init /\ [][NextBuf]_vars

\* ------------------------------------------------------- the client's menu
\* commands entered during one run of the client
MaxCommands == 2
\* datagrams that arrive on the client's socket during the run
MaxDatagrams == 3

\* the server's part is idle during the steps of the menu
MenuOnly ==
    UNCHANGED <<semantics, facilityData, monitorSubs, history, now, workers, dataLock,
                sent, executed, client, codec, calc, goroutines, mutexes, recvBuf>>

\* RunCLI reads a command; its handler builds the request with
\* GetNextRequestID and calls SendRequest, which writes the datagram
Command(op) ==
    /\ cli.pc = "menu"
    /\ cli.issued < MaxCommands
    /\ cli' = [cli EXCEPT !.pc = "sending",
                          !.asked = [OpCode |-> op, RequestID |-> cli.NextReqID],
                          !.NextReqID = @ + 1,
                          !.replied = FALSE,
                          !.issued = @ + 1]
    /\ MenuOnly

\* the server's reply to the request being sent arrives on the socket
ReplyArrives ==
    /\ cli.pc = "sending" /\ ~cli.replied
    /\ Len(cli.taken) + Len(cli.socket) < MaxDatagrams
    /\ cli' = [cli EXCEPT !.socket = Append(@, cli.asked), !.replied = TRUE]
    /\ MenuOnly

\* a callback for a subscription of this client arrives on the socket
CallbackArrives ==
    /\ cli.subscribed
    /\ Len(cli.taken) + Len(cli.socket) < MaxDatagrams
    /\ cli' = [cli EXCEPT !.socket = Append(@, [OpCode |-> OpCallback, RequestID |-> 0])]
    /\ MenuOnly

\* SendRequest's ReadFromUDP returns the first datagram on the socket and
\* SendRequest returns it; handleMonitorAvailability, when the status is
\* 0 (ok), sets MonitorMode and starts a listener goroutine; RunCLI goes on
SendRequestReads ==
    /\ cli.pc = "sending"
    /\ cli.socket # << >>
    /\ \E ok \in BOOLEAN :
          LET took == [cli EXCEPT
                          !.socket = Tail(@),
                          !.taken = Append(@, [by |-> "SendRequest",
                                               frame |-> Head(cli.socket),
                                               for |-> cli.asked]),
                          !.asked = NoRequest]
          IN  cli' = IF cli.asked.OpCode = OpMonitorAvailability /\ ok
                        THEN [took EXCEPT !.pc = "monitoring",
                                          !.stale = cli.MonitorMode,
                                          !.MonitorMode = TRUE,
                                          !.subscribed = TRUE,
                                          !.listeners = Append(@, "reading")]
                        ELSE [took EXCEPT !.pc = "menu"]
    /\ MenuOnly

\* SendRequest returns an error: every attempt timed out, or a read failed
SendRequestFails ==
    /\ cli.pc = "sending"
    /\ cli' = [cli EXCEPT !.pc = "menu", !.asked = NoRequest]
    /\ MenuOnly

\* RunCLI in monitor mode: Enter is pressed and MonitorMode is cleared
PressEnter ==
    /\ cli.pc = "monitoring"
    /\ cli' = [cli EXCEPT !.pc = "menu", !.stale = cli.MonitorMode,
                          !.MonitorMode = FALSE]
    /\ MenuOnly

\* listener g's ReadFromUDP returns the first datagram on the socket; the
\* listener prints it if it is a callback and goes to the loop condition
ListenerReads(g) ==
    /\ cli.listeners[g] = "reading"
    /\ cli.socket # << >>
    /\ cli' = [cli EXCEPT !.socket = Tail(@),
                          !.taken = Append(@, [by |-> "listener",
                                               frame |-> Head(cli.socket),
                                               for |-> cli.asked]),
                          !.listeners[g] = "checking"]
    /\ MenuOnly

\* listener g's ReadFromUDP returns an error: the deadline passed and the
\* listener goes to the loop condition, or another error and it returns
ListenerReadFails(g) ==
    /\ cli.listeners[g] = "reading"
    /\ \E timeout \in BOOLEAN :
          cli' = [cli EXCEPT !.listeners[g] = IF timeout THEN "checking" ELSE "ended"]
    /\ MenuOnly

\* listener g evaluates its loop condition c.MonitorMode, a field RunCLI
\* writes without synchronisation: the read returns the field's value or
\* the value before the last write
ListenerChecks(g) ==
    /\ cli.listeners[g] = "checking"
    /\ \E seen \in {cli.MonitorMode, cli.stale} :
          cli' = [cli EXCEPT !.listeners[g] = IF seen THEN "reading" ELSE "ended"]
    /\ MenuOnly

NextMenu ==
    \/ \E op \in {OpQueryAvailability, OpMonitorAvailability} : Command(op)
    \/ ReplyArrives
    \/ CallbackArrives
    \/ SendRequestReads
    \/ SendRequestFails
    \/ PressEnter
    \/ \E g \in DOMAIN cli.listeners : ListenerReads(g)
    \/ \E g \in DOMAIN cli.listeners : ListenerReadFails(g)
    \/ \E g \in DOMAIN cli.listeners : ListenerChecks(g)

\* one run of the client's menu
SpecMenu == Init /\ [][NextMenu]_vars

\* ------------------------------------------------- the client, restarted
\* the values rand.Int63() can give NextReqID when a client process starts
InitialIDs == {1, 2}
\* client processes started one after another at the same address
MaxRuns == 2

\* the client process at the Writer's address starts an operation: its
\* handler takes the request-id from GetNextRequestID, and the datagram
\* reaches the server after the earlier workers have ended
Issue(req) ==
    /\ CanSpawnIdle
    /\ req.RequestID = cli.NextReqID
    /\ workers' = Append(workers, Spawned(Writer, req))
    /\ cli' = [cli EXCEPT !.NextReqID = @ + 1,
                          !.ops = Append(@, [worker |-> Len(workers) + 1,
                                             run |-> cli.run])]
    /\ UNCHANGED <<semantics, facilityData, monitorSubs, history, now, dataLock, sent,
                   executed, client, codec, calc, goroutines, mutexes, recvBuf>>

\* the client process ends and another is started on the same local
\* address: main draws its first request-id anew
Restart ==
    /\ cli.run < MaxRuns
    /\ \E id \in InitialIDs :
          cli' = [AtMenu EXCEPT !.NextReqID = id, !.run = cli.run + 1, !.ops = cli.ops]
    /\ UNCHANGED <<semantics, facilityData, monitorSubs, history, now, workers,
                   dataLock, sent, executed, client, codec, calc, goroutines, mutexes,
                   recvBuf>>

\* the operations the restarted client's menu is used for
RestartPayloads(rid) ==
    {r \in Payloads(Writer, rid) \cup Payloads(Watcher, rid) :
        /\ ~r.Cut /\ KnownOp(r.OpCode)
        /\ r.OpCode \in {OpQueryAvailability, OpMonitorAvailability}
                => r.FacilityName = "RoomA"
        /\ r.OpCode = OpBookFacility => (r.FacilityName = "Lab1" /\ r.StartHour = 9)
        /\ r.OpCode # OpChangeBooking
        /\ r.OpCode \in {OpCancelBooking, OpAddParticipant} => r.ConfirmationID = 10000}

NextRestart ==
    \/ \E rid \in 1..(SeqPackets + 2) : \E req \in RestartPayloads(rid) : Issue(req)
    \/ \E w \in DOMAIN workers : CanSpawnIdle /\ Retransmit(w)
    \/ Restart
    \/ Work

\* the server, datagrams arriving one after another from a client that
\* can be restarted
SpecRestart == Init /\ [][NextRestart]_vars

\* ================================================================ claims
\* the worker ran its handler (it did not end at decoding or at a cache hit)
RanHandler(w) ==
    \/ workers[w].pc \in {"notify", "pass", "render", "register", "store", "send"}
    \/ workers[w].pc = "done" /\ workers[w].reply # NoReply

\* the reply frames sent so far (callbacks left out), by position in sent
ReplyFrames == {i \in DOMAIN sent : sent[i].frame.OpCode # OpCallback}
CallbackFrameIndexes == {i \in DOMAIN sent : sent[i].frame.OpCode = OpCallback}

\* C1: in every reachable state every two distinct bookings of the same
\* facility are non-overlapping as half-open intervals of the absolute
\* minutes computed from their stored fields.
C1_NoOverlap ==
    \A f \in DOMAIN facilityData :
        \A i, j \in 1..Len(facilityData[f]) :
            i # j => ~timesOverlap(StartAbs(facilityData[f][i]), EndAbs(facilityData[f][i]),
                                   StartAbs(facilityData[f][j]), EndAbs(facilityData[f][j]))

\* C2: in every reachable state every stored booking has end > start in
\* absolute minutes of its stored fields.
C2_EndAfterStart ==
    \A f \in DOMAIN facilityData :
        \A i \in 1..Len(facilityData[f]) :
            EndAbs(facilityData[f][i]) > StartAbs(facilityData[f][i])

\* C3: under at-most-once the handler is executed at most once per
\* (peer address, request-id) key, also when workers for one key run in
\* parallel.
C3_ExecutedAtMostOnce ==
    semantics = SemanticsAtMostOnce =>
        \A i, j \in DOMAIN executed : i # j => executed[i] # executed[j]

\* C4: under at-most-once all reply frames sent for one (peer address,
\* request-id) key are identical.
C4_RepliesIdentical ==
    semantics = SemanticsAtMostOnce =>
        \A i, j \in ReplyFrames :
            (sent[i].to = sent[j].to /\ sent[i].frame.RequestID = sent[j].frame.RequestID)
                => sent[i].frame = sent[j].frame

\* the worker's key has a cached reply when it comes to look it up
CacheHit(w) ==
    /\ semantics = SemanticsAtMostOnce
    /\ workers[w].pc = "lookup"
    /\ Decodes(workers[w].req)
    /\ RequestKey(workers[w].addr, workers[w].req) \in DOMAIN history

\* C5: under at-most-once a datagram whose key has a cached reply is
\* answered with the cached reply; the booking store, the monitor registry
\* and the cache stay as they are and no callback is sent.
C5_ReplayHasNoEffect ==
    [][\A w \in DOMAIN workers :
          (CacheHit(w) /\ workers'[w].pc # "lookup") =>
              /\ workers'[w].pc = "done"
              /\ sent' = Append(sent, [to |-> workers[w].addr,
                                       frame |-> history[RequestKey(workers[w].addr,
                                                                    workers[w].req)]])
              /\ facilityData' = facilityData
              /\ monitorSubs' = monitorSubs
              /\ history' = history]_vars

\* a retransmission has been answered from the cache
C5_Witness ==
    /\ semantics = SemanticsAtMostOnce
    /\ Len(executed) = 1
    /\ Len(sent) = 2
    /\ sent[1] = sent[2]
    /\ \E w \in DOMAIN workers : workers[w].pc = "done" /\ ~RanHandler(w)

\* the ids of the seeded bookings
SeededIDs == {10000, 10001, 20000}

\* the workers whose datagram asks to add a participant to booking confID
AddWorkers(confID) ==
    {w \in DOMAIN workers : /\ workers[w].req.OpCode = OpAddParticipant
                            /\ workers[w].req.ConfirmationID = confID}

\* C6: under at-least-once the cache stays empty and every decoded datagram
\* runs its handler, so k deliveries of AddParticipant(c, n) for an existing
\* booking c leave n k times in c's list; under at-most-once, deliveries
\* handled one after another run the handler once per key, so k deliveries
\* of one datagram leave n once.
C6_AddParticipantPerExecution ==
    /\ semantics = SemanticsAtLeastOnce =>
          /\ history = << >>
          /\ \A w \in DOMAIN workers :
                (Decodes(workers[w].req) /\ workers[w].pc \notin {"lookup", "exec"})
                    => RanHandler(w)
    /\ semantics = SemanticsAtMostOnce =>
          \A v, w \in DOMAIN workers :
              (v # w /\ RequestKey(workers[v].addr, workers[v].req)
                            = RequestKey(workers[w].addr, workers[w].req))
                  => ~(RanHandler(v) /\ RanHandler(w))
    /\ \A f \in DOMAIN facilityData :
          \A i \in 1..Len(facilityData[f]) :
              LET bk == facilityData[f][i]
                  ran == {w \in AddWorkers(bk.ConfirmationID) : RanHandler(w)}
              IN  bk.ConfirmationID \in SeededIDs =>
                      /\ Len(bk.Participants) = Cardinality(ran)
                      /\ \A j \in 1..Len(bk.Participants) :
                            \E w \in ran : workers[w].req.ParticipantName = bk.Participants[j]

\* under at-least-once one AddParticipant datagram delivered twice has left
\* the name twice
C6_Witness ==
    /\ semantics = SemanticsAtLeastOnce
    /\ \E v, w \in AddWorkers(10000) :
          /\ v # w
          /\ workers[v].req = workers[w].req
          /\ workers[v].pc = "done" /\ workers[w].pc = "done"
    /\ \E i \in 1..Len(facilityData["RoomA"]) :
          /\ facilityData["RoomA"][i].ConfirmationID = 10000
          /\ facilityData["RoomA"][i].Participants = <<"alice", "alice">>

\* the confirmation ids the store holds
StoredIDs ==
    UNION {{facilityData[f][i].ConfirmationID : i \in 1..Len(facilityData[f])} :
                f \in DOMAIN facilityData}

CancelRequest(confID) == Request(OpCancelBooking, 0, "", NoSlot, confID, 0, 0, "")

\* C7: for every store state and confirmation-id c, Cancel(c) executed
\* twice in sequence leaves the store that one execution leaves, both replies
\* have status 0 and the second execution raises no notification.
C7_CancelIdempotent ==
    \A c \in StoredIDs \cup AskedIDs :
        \A f1 \in ScanChoices(facilityData, c) :
            LET once == handleCancelBooking(facilityData, CancelRequest(c), f1)
            IN  \A f2 \in ScanChoices(once.store, c) :
                    LET twice == handleCancelBooking(once.store, CancelRequest(c), f2)
                    IN  /\ twice.store = once.store
                        /\ once.status = 0
                        /\ twice.status = 0
                        /\ ~twice.notify

\* worker w leaves its handler for ChangeBooking in this step with status st
ChangeReturns(w, st) ==
    /\ workers[w].pc = "exec"
    /\ workers[w].req.OpCode = OpChangeBooking
    /\ workers'[w].pc # "exec"
    /\ workers'[w].reply.Status = st

\* C8: a Change that finds an overlap returns status 1 and leaves every
\* facility's ordered list of bookings as it was, and sends no callback.
C8_ConflictRestoresStore ==
    [][\A w \in DOMAIN workers :
          ChangeReturns(w, 1) => (facilityData' = facilityData /\ sent' = sent)]_vars

\* C9: a Change that returns status 0 leaves booking c with absolute start
\* oldStart + offset and absolute end oldEnd + offset, computed from its
\* stored fields, and with its confirmation-id and participants.
C9_ChangeShiftsByOffset ==
    [][\A w \in DOMAIN workers :
          ChangeReturns(w, 0) =>
              \E f \in FoundIn(facilityData, workers[w].req.ConfirmationID) :
                  LET old == facilityData[f][IndexOf(facilityData[f],
                                                     workers[w].req.ConfirmationID)]
                      new == facilityData'[f][Len(facilityData'[f])]
                  IN  /\ new.ConfirmationID = old.ConfirmationID
                      /\ new.Participants = old.Participants
                      /\ StartAbs(new) = StartAbs(old) + workers[w].req.OffsetMinutes
                      /\ EndAbs(new) = EndAbs(old) + workers[w].req.OffsetMinutes]_vars

\* the callbacks among the frames s, by position, that go to peer p
CallbacksTo(s, p) == {i \in DOMAIN s : s[i].frame.OpCode = OpCallback /\ s[i].to = p}

\* C10: a notification pass whose clock reading is at or after a
\* subscription's expiry sends that subscription no callback and removes it
\* from the registry, whatever the facility of the pass.
C10_ExpiredDroppedUncalled ==
    [][\A w \in DOMAIN workers :
          (workers[w].pc = "pass" /\ workers'[w].pc # "pass") =>
              /\ \A i \in DOMAIN monitorSubs' :
                    workers[w].readAt < monitorSubs'[i].ExpiresAt
              /\ \A p \in {Writer, Watcher} :
                    Cardinality(CallbacksTo(sent', p)) - Cardinality(CallbacksTo(sent, p))
                        <= Cardinality({i \in DOMAIN monitorSubs :
                                            /\ monitorSubs[i].ClientAddr = p
                                            /\ monitorSubs[i].FacilityName = workers[w].fac
                                            /\ workers[w].readAt
                                                    < monitorSubs[i].ExpiresAt})]_vars

\* two subscriptions were registered, a pass dropped the expired one and
\* called the live one back
C10_Witness ==
    /\ Cardinality({w \in DOMAIN workers :
                        /\ workers[w].req.OpCode = OpMonitorAvailability
                        /\ workers[w].pc = "done"
                        /\ workers[w].reply.Status = 0}) = 2
    /\ Len(monitorSubs) = 1
    /\ Cardinality(CallbackFrameIndexes) = 1
    /\ \E w \in DOMAIN workers :
          workers[w].req.OpCode = OpAddParticipant /\ workers[w].pc = "done"

\* the frames the step appends to the socket's output
NewFrames == SubSeq(sent', Len(sent) + 1, Len(sent'))

\* the facilities whose list of bookings the step changes
ChangedFacilities == {f \in DOMAIN facilityData : facilityData'[f] # facilityData[f]}

\* the subscriptions of the registry that a pass for facility f reading the
\* clock at t owes a callback, by position
DueSubs(f, t) ==
    {i \in DOMAIN monitorSubs : /\ monitorSubs[i].FacilityName = f
                                /\ t < monitorSubs[i].ExpiresAt}

\* C11: a Book, Change, Cancel or AddParticipant that succeeds on facility F
\* raises one notification for F, whose pass sends one callback frame
\* (opcode 100, request-id 0, status 0) per live subscription entry for F,
\* to that entry's peer, and nothing to the subscriptions of other
\* facilities; no other step sends a callback.
C11_OneCallbackPerLiveSubscription ==
    [][/\ \A w \in DOMAIN workers :
            /\ (/\ workers[w].pc = "exec" /\ workers'[w].pc # "exec"
                /\ ChangedFacilities # {} /\ workers'[w].reply.Status = 0)
                  => /\ workers'[w].pc = "notify"
                     /\ ChangedFacilities = {workers'[w].fac}
            /\ (workers[w].pc = "notify" /\ workers'[w].pc # "notify")
                  => workers'[w].pc = "pass" /\ workers'[w].fac = workers[w].fac
            /\ (workers[w].pc = "pass" /\ workers'[w].pc # "pass")
                  => LET due == DueSubs(workers[w].fac, workers[w].readAt)
                     IN  /\ Len(NewFrames) = Cardinality(due)
                         /\ \A j \in DOMAIN NewFrames :
                               /\ NewFrames[j].frame.OpCode = OpCallback
                               /\ NewFrames[j].frame.RequestID = 0
                               /\ NewFrames[j].frame.Status = 0
                               /\ NewFrames[j].frame.Data[2] = workers[w].fac
                         /\ \A p \in {Writer, Watcher} :
                               Cardinality({j \in DOMAIN NewFrames : NewFrames[j].to = p})
                                 = Cardinality({i \in due : monitorSubs[i].ClientAddr = p})
       /\ (\A w \in DOMAIN workers : ~(workers[w].pc = "pass" /\ workers'[w].pc # "pass"))
            => \A j \in DOMAIN NewFrames : NewFrames[j].frame.OpCode # OpCallback]_vars

\* one peer holds two subscriptions for RoomA and one change of RoomA has
\* called it back twice
C11_Witness ==
    /\ Len(monitorSubs) = 2
    /\ monitorSubs[1].ClientAddr = monitorSubs[2].ClientAddr
    /\ monitorSubs[1].FacilityName = "RoomA" /\ monitorSubs[2].FacilityName = "RoomA"
    /\ Cardinality(CallbackFrameIndexes) = 2
    /\ \A i \in CallbackFrameIndexes : sent[i].to = Watcher
    /\ \E w \in DOMAIN workers :
          /\ workers[w].addr = Writer /\ workers[w].pc = "done"
          /\ workers[w].reply.Status = 0

\* the reply frames sent so far to peer addr that carry request-id rid
RepliesFor(addr, rid) ==
    {i \in ReplyFrames : sent[i].to = addr /\ sent[i].frame.RequestID = rid}

\* the workers that have ended after decoding a datagram of addr with rid
EndedFor(addr, rid) ==
    {w \in DOMAIN workers : /\ workers[w].addr = addr
                            /\ workers[w].req.RequestID = rid
                            /\ workers[w].pc = "done"
                            /\ ~workers[w].req.Cut
                            /\ workers[w].req.OpCode \in 1..6}

\* C12: under a fair scheduler the worker of every datagram that decodes
\* ends, and the workers that have ended have each written one reply frame
\* to their sender: a key's reply frames are as many as its ended workers.
C12_EveryDecodedDatagramReplied ==
    /\ [](\A w \in DOMAIN workers :
            Cardinality(RepliesFor(workers[w].addr, workers[w].req.RequestID))
                = Cardinality(EndedFor(workers[w].addr, workers[w].req.RequestID)))
    /\ \A w \in 1..MaxPackets :
            [](w \in DOMAIN workers
                    => <>(w \in DOMAIN workers /\ workers[w].pc = "done"))

\* under at-least-once a datagram and its retransmission have both been
\* handled and answered, the second with an error status
C12_Witness ==
    /\ semantics = SemanticsAtLeastOnce
    /\ Len(workers) = 2
    /\ workers[1].req = workers[2].req
    /\ workers[1].pc = "done" /\ workers[2].pc = "done"
    /\ Len(sent) = 2
    /\ sent[1].frame.Status = 0 /\ sent[2].frame.Status # 0

\* the workers that have ended and whose datagram carried opcode n outside
\* 1..6 with all its bytes
UnknownOpWorkers(n) ==
    {w \in DOMAIN workers : /\ workers[w].req.OpCode = n
                            /\ workers[w].req.OpCode \notin 1..6
                            /\ ~workers[w].req.Cut
                            /\ workers[w].pc = "done"}

\* C13: a datagram whose opcode n is not one of 1..6 is answered with a
\* reply of status -1 and data 'Unknown OpCode <n>'.
C13_UnknownOpcodeAnswered ==
    \A n \in AskedOpCodes :
        \A w \in UnknownOpWorkers(n) :
            \E i \in RepliesFor(workers[w].addr, workers[w].req.RequestID) :
                /\ sent[i].frame.Status = -1
                /\ sent[i].frame.Data = <<"Unknown OpCode", n>>

\* the datagram of worker w fails to decode: bytes are missing or its opcode
\* is none of the six
FailsToDecode(w) == workers[w].req.Cut \/ workers[w].req.OpCode \notin 1..6

\* C14: a datagram that fails to decode is dropped: its worker ends at once,
\* writes nothing to the socket and leaves the booking store, the monitor
\* registry and the cache as they are; it never takes a step again.
C14_UndecodableDropped ==
    [][\A w \in DOMAIN workers :
          FailsToDecode(w) =>
              /\ workers[w].pc = "lookup"
                    => (workers'[w].pc = "lookup"
                        \/ /\ workers'[w].pc = "done"
                           /\ sent' = sent
                           /\ facilityData' = facilityData
                           /\ monitorSubs' = monitorSubs
                           /\ history' = history
                           /\ executed' = executed)
              /\ workers[w].pc = "done" => workers'[w] = workers[w]]_vars

\* a datagram cut short and a datagram with opcode 7 have been dropped and
\* nothing has been written to the socket
C14_Witness ==
    /\ Len(workers) = 2
    /\ workers[1].req.Cut # workers[2].req.Cut
    /\ \A w \in DOMAIN workers : FailsToDecode(w) /\ workers[w].pc = "done"
    /\ sent = << >>
    /\ executed = << >>

\* worker w leaves its handler for BookFacility in this step
BookReturns(w) ==
    /\ workers[w].pc = "exec"
    /\ workers[w].req.OpCode = OpBookFacility
    /\ workers'[w].pc # "exec"

\* some booking of facility f overlaps the half-open interval [start, end)
OverlapsExisting(f, start, end) ==
    \E i \in 1..Len(facilityData[f]) :
        /\ start < facilityData[f][i].EndDay * 1440 + facilityData[f][i].EndHour * 60
                        + facilityData[f][i].EndMinute
        /\ facilityData[f][i].StartDay * 1440 + facilityData[f][i].StartHour * 60
                        + facilityData[f][i].StartMinute < end

\* C15: Book returns -1 when the facility does not exist or end <= start,
\* 1 when the facility exists, end > start and a booking of it overlaps
\* [start, end), and 0 otherwise; with 0 the facility's list has gained one
\* booking at its end with the requested times and no participants and
\* nothing else has changed, with another status the store is unchanged.
C15_BookStatus ==
    [][\A w \in DOMAIN workers :
          BookReturns(w) =>
              LET req == workers[w].req
                  f == req.FacilityName
                  start == req.StartDay * 1440 + req.StartHour * 60 + req.StartMinute
                  end == req.EndDay * 1440 + req.EndHour * 60 + req.EndMinute
                  status == workers'[w].reply.Status
              IN  /\ status = IF f \notin DOMAIN facilityData \/ end <= start THEN -1
                              ELSE IF OverlapsExisting(f, start, end) THEN 1
                              ELSE 0
                  /\ status # 0 => facilityData' = facilityData
                  /\ status = 0 =>
                        /\ \A g \in DOMAIN facilityData \ {f} :
                                facilityData'[g] = facilityData[g]
                        /\ Len(facilityData'[f]) = Len(facilityData[f]) + 1
                        /\ SubSeq(facilityData'[f], 1, Len(facilityData[f])) = facilityData[f]
                        /\ LET new == facilityData'[f][Len(facilityData'[f])]
                           IN  /\ new.StartDay = req.StartDay
                               /\ new.StartHour = req.StartHour
                               /\ new.StartMinute = req.StartMinute
                               /\ new.EndDay = req.EndDay
                               /\ new.EndHour = req.EndHour
                               /\ new.EndMinute = req.EndMinute
                               /\ new.Participants = << >>]_vars

\* RoomA's Monday booking was moved to 10:00-11:00 and the slot 09:00-10:00,
\* which ends where that booking starts, was booked
C15_Witness ==
    /\ \E i \in 1..Len(facilityData["RoomA"]) :
          /\ facilityData["RoomA"][i].ConfirmationID = 10000
          /\ facilityData["RoomA"][i].StartHour = 10
    /\ \E w \in DOMAIN workers :
          /\ workers[w].req.OpCode = OpBookFacility
          /\ workers[w].req.FacilityName = "RoomA"
          /\ workers[w].pc = "done"
          /\ workers[w].reply.Status = 0

\* the workers whose Book succeeded, and the confirmation id each was given
Booked == {w \in DOMAIN workers : /\ workers[w].req.OpCode = OpBookFacility
                                  /\ RanHandler(w)
                                  /\ workers[w].reply.Status = 0}
AssignedID(w) == workers[w].reply.Data[9]

\* C16: the confirmation id a successful Book assigns differs from the id
\* of every other successful Book and from the seeded ids.
C16_ConfirmationIDsDistinct ==
    \A v \in Booked :
        /\ AssignedID(v) \notin SeededIDs
        /\ \A w \in Booked \ {v} : AssignedID(v) # AssignedID(w)

\* some other peer's reply is cached under the request-id of worker w, and
\* none under w's own key
OnlyOtherPeerCached(w) ==
    /\ semantics = SemanticsAtMostOnce
    /\ workers[w].pc = "lookup"
    /\ ~FailsToDecode(w)
    /\ [Addr |-> workers[w].addr, RequestID |-> workers[w].req.RequestID]
            \notin DOMAIN history
    /\ \E k \in DOMAIN history :
            k.RequestID = workers[w].req.RequestID /\ k.Addr # workers[w].addr

\* C17: under at-most-once a request of peer P2 with request-id R is executed
\* when only a reply for (P1, R) is cached, and every reply frame sent to a
\* peer was computed by a worker for a datagram of that peer with that
\* request-id.
C17_PeersDoNotCollide ==
    /\ [][\A w \in DOMAIN workers :
             (OnlyOtherPeerCached(w) /\ workers'[w].pc # "lookup")
                 => (workers'[w].pc = "exec" /\ sent' = sent)]_vars
    /\ [](semantics = SemanticsAtMostOnce =>
            \A i \in ReplyFrames :
                \E w \in DOMAIN workers :
                    /\ workers[w].addr = sent[i].to
                    /\ workers[w].req.RequestID = sent[i].frame.RequestID
                    /\ RanHandler(w)
                    /\ workers[w].reply = sent[i].frame)

\* both peers used request-id 1, both requests ran their handler and each
\* peer got the reply to its own request
C17_Witness ==
    /\ semantics = SemanticsAtMostOnce
    /\ Len(workers) = 2
    /\ workers[1].addr = Writer /\ workers[2].addr = Watcher
    /\ workers[1].req.RequestID = workers[2].req.RequestID
    /\ workers[1].pc = "done" /\ workers[2].pc = "done"
    /\ executed = <<[Addr |-> Writer, RequestID |-> 1], [Addr |-> Watcher, RequestID |-> 1]>>
    /\ Len(sent) = 2
    /\ sent[1] = [to |-> Writer, frame |-> workers[1].reply]
    /\ sent[2] = [to |-> Watcher, frame |-> workers[2].reply]
    /\ workers[1].reply.OpCode # workers[2].reply.OpCode

\* C19: the callbacks an operation causes are written to the socket before
\* its reply: a step writes callbacks only while its worker is inside the
\* handler, with its reply still to be stored or sent, and the step that
\* writes a worker's reply writes nothing but that reply.
C19_CallbacksBeforeReply ==
    [][/\ (\E j \in DOMAIN NewFrames : NewFrames[j].frame.OpCode = OpCallback)
            => /\ \A j \in DOMAIN NewFrames : NewFrames[j].frame.OpCode = OpCallback
               /\ \E w \in DOMAIN workers :
                     /\ workers[w].pc = "pass"
                     /\ workers'[w].pc \in {"store", "send"}
                     /\ workers'[w].reply.Status = 0
                     /\ \A j \in DOMAIN NewFrames :
                           NewFrames[j].frame.Data[2] = workers[w].fac
       /\ \A w \in DOMAIN workers :
            (workers[w].pc = "send" /\ workers'[w].pc # "send")
                => /\ workers'[w].pc = "done"
                   /\ NewFrames = <<[to |-> workers[w].addr, frame |-> workers[w].reply]>>]_vars

\* a watcher registered, then a change of the facility wrote the callback
\* and after it the reply to the peer that asked for the change
C19_Witness ==
    /\ Len(sent) = 3
    /\ sent[1].frame.OpCode = OpMonitorAvailability
    /\ sent[2].frame.OpCode = OpCallback /\ sent[2].to = Watcher
    /\ sent[3].to = Writer /\ sent[3].frame.Status = 0
    /\ \E w \in DOMAIN workers :
          /\ workers[w].addr = Writer /\ workers[w].pc = "done"
          /\ workers[w].reply = sent[3].frame

\* worker w handles a MonitorAvailability request
Monitors(w) == workers[w].req.OpCode = OpMonitorAvailability

\* C20: a registration for a facility that does not exist returns -1 and
\* leaves the registry unchanged; for an existing facility the handler reads
\* the clock, appends exactly one subscription (peer, facility, expiry =
\* that reading + seconds) behind the subscriptions already there, and
\* returns 0.
C20_RegistrationAppendsOne ==
    [][\A w \in DOMAIN workers :
          Monitors(w) =>
              /\ (workers[w].pc = "exec" /\ workers'[w].pc # "exec")
                    => /\ monitorSubs' = monitorSubs
                       /\ IF workers[w].req.FacilityName \in DOMAIN facilityData
                             THEN /\ workers'[w].pc = "register"
                                  /\ workers'[w].expiry = now + workers[w].req.MonitorPeriod
                             ELSE /\ workers'[w].pc \in {"store", "send"}
                                  /\ workers'[w].reply.Status = -1
              /\ (workers[w].pc = "register" /\ workers'[w].pc # "register")
                    => /\ monitorSubs' =
                            Append(monitorSubs,
                                   [ClientAddr |-> workers[w].addr,
                                    FacilityName |-> workers[w].req.FacilityName,
                                    ExpiresAt |-> workers[w].expiry])
                       /\ workers'[w].pc \in {"store", "send"}
                       /\ workers'[w].reply.Status = 0]_vars

\* one peer registered twice for RoomA, at clock readings 0 and 1, and was
\* refused a facility that does not exist
C20_Witness ==
    /\ Len(monitorSubs) = 2
    /\ monitorSubs[1] = [ClientAddr |-> Watcher, FacilityName |-> "RoomA", ExpiresAt |-> 1]
    /\ monitorSubs[2] = [ClientAddr |-> Watcher, FacilityName |-> "RoomA", ExpiresAt |-> 2]
    /\ \E w \in DOMAIN workers :
          /\ Monitors(w) /\ workers[w].req.FacilityName = "Ghost"
          /\ workers[w].pc = "done" /\ workers[w].reply.Status = -1

\* the attempt outcomes after which the loop sends again
Unanswered == {"timeout", "dropped"}

\* C18: SendRequest ends; it writes the same bytes at most 4 times, writes
\* again only after an attempt without an accepted reply, returns the
\* decoded reply as soon as one is accepted, and returns an error when all
\* 4 attempts ended without one.
C18_SendRequestTerminates ==
    /\ [](/\ Len(client.wrote) <= maxRetries
          /\ \A i \in DOMAIN client.wrote : client.wrote[i] = client.data
          /\ Len(client.wrote) <= Len(client.outcomes) + 1
          /\ \A i \in DOMAIN client.outcomes :
                i < Len(client.wrote) => client.outcomes[i] \in Unanswered
          /\ \A i \in DOMAIN client.outcomes :
                client.outcomes[i] = "accepted"
                    => /\ i = Len(client.outcomes)
                       /\ client.pc = "returned"
                       /\ client.reply # NoReply
          /\ client.pc = "returned"
                => client.outcomes[Len(client.outcomes)] = "accepted"
          /\ (/\ Len(client.outcomes) = maxRetries
              /\ \A i \in DOMAIN client.outcomes : client.outcomes[i] \in Unanswered)
                => client.pc = "failed")
    /\ (client.pc # "idle") ~> (client.pc \in {"returned", "failed"})

\* the third attempt was answered after a timeout and a dropped reply
C18_Witness ==
    /\ client.pc = "returned"
    /\ Len(client.wrote) = 3
    /\ client.outcomes = <<"timeout", "dropped", "accepted">>
    /\ client.reply.RequestID = client.data.RequestID

\* a request as the claim takes it: opcode in 1..6, the fields its opcode
\* does not put on the wire zero or empty, strings and day list within the
\* lengths their prefixes hold
WellFormedRequest(req) ==
    /\ req.OpCode \in 1..6
    /\ Len(req.FacilityName) <= 65535 /\ Len(req.ConfirmationID) <= 65535
    /\ Len(req.ParticipantName) <= 65535 /\ Len(req.DaysList) <= 255
    /\ req.OpCode \notin {OpQueryAvailability, OpBookFacility, OpMonitorAvailability}
          => req.FacilityName = << >>
    /\ req.OpCode # OpQueryAvailability => req.DaysList = << >>
    /\ req.OpCode # OpBookFacility
          => <<req.StartDay, req.StartHour, req.StartMinute,
               req.EndDay, req.EndHour, req.EndMinute>> = <<0, 0, 0, 0, 0, 0>>
    /\ req.OpCode \notin {OpChangeBooking, OpCancelBooking, OpAddParticipant}
          => req.ConfirmationID = << >>
    /\ req.OpCode # OpChangeBooking => req.OffsetMinutes = 0
    /\ req.OpCode # OpMonitorAvailability => req.MonitorPeriod = 0
    /\ req.OpCode # OpAddParticipant => req.ParticipantName = << >>

\* C21: the codec round-trips: a well-formed request is marshalled without
\* error and unmarshalling its frame gives the request back; every reply
\* with data of at most 65535 bytes, whatever its opcode and status, is
\* given back by UnmarshalReply(MarshalReply(rep)).
C21_CodecRoundTrips ==
    /\ (codec.pc = "failed" /\ codec.side = "request") => ~WellFormedRequest(codec.msg)
    /\ (codec.pc = "failed") => codec.side = "request"
    /\ (codec.pc = "decoded" /\ codec.how = "whole")
          => IF codec.side = "request"
                THEN WellFormedRequest(codec.msg)
                        => ~codec.out.err /\ codec.out.msg = codec.msg
                ELSE Len(codec.msg.Data) <= 65535
                        => ~codec.out.err /\ codec.out.msg = codec.msg

\* a Change with offset -1 and the largest request-id came back whole
C21_Witness ==
    /\ codec.pc = "decoded" /\ codec.how = "whole" /\ codec.side = "request"
    /\ codec.msg.OpCode = OpChangeBooking
    /\ codec.msg.OffsetMinutes = -1
    /\ codec.msg.RequestID = 2147483647
    /\ codec.msg.ConfirmationID = <<82, 65>>
    /\ codec.out = Decoded(codec.msg)

\* C22: every strict prefix of a valid request or reply frame is rejected
\* by its decoder, and so is a frame whose declared string length exceeds
\* the bytes that remain.
C22_TruncationRejected ==
    (codec.pc = "decoded" /\ codec.how \in {"cut", "overstated"}) => codec.out.err

\* an AddParticipant frame cut inside its second string was rejected
C22_Witness ==
    /\ codec.pc = "decoded" /\ codec.how = "cut" /\ codec.side = "request"
    /\ codec.msg.OpCode = OpAddParticipant
    /\ codec.msg.ConfirmationID = <<82>>
    /\ codec.msg.ParticipantName = <<82, 65>>
    /\ Len(codec.data) = Len(MarshalRequest(codec.msg).buf) - 1
    /\ codec.out.err

\* C23: decoding a reply frame whose opcode is neither a request opcode
\* 1..6 nor the callback opcode 100 fails with an error.
C23_UnknownReplyOpcodeRejected ==
    (/\ codec.pc = "decoded" /\ codec.side = "reply" /\ codec.how = "whole"
     /\ codec.msg.OpCode \notin (1..6) \cup {OpCallback})
        => codec.out.err

\* C26: time conversion is lossless: fromAbsoluteMinutes gives back every
\* (day, hour, minute) of the week from its absolute minutes, and
\* toAbsoluteMinutes gives back every n in 0..10079 from its fields.
C26_ConversionLossless ==
    /\ calc.pc = "joined"
          => /\ calc.abs \in 0..10079
             /\ calc.back = calc.fields
    /\ calc.pc = "split"
          => /\ calc.fields[1] \in 0..6 /\ calc.fields[2] \in 0..23
             /\ calc.fields[3] \in 0..59
             /\ calc.back = calc.abs

\* Sunday 23:59 was joined to 10079 and split again
C26_Witness ==
    /\ calc.pc = "joined"
    /\ calc.fields = <<6, 23, 59>>
    /\ calc.abs = 10079
    /\ calc.back = <<6, 23, 59>>

\* the minutes of day d (counted from its 00:00) that no booking covers,
\* bookings taken as half-open intervals of absolute minutes
FreeMinutes(bookings, d) ==
    {m \in 0..1439 :
        \A i \in DOMAIN bookings :
            ~(StartAbs(bookings[i]) <= d * 1440 + m /\ d * 1440 + m < EndAbs(bookings[i]))}

\* the maximal free intervals of day d as the numbers of "HH:MM-HH:MM"
\* within the day
MaximalFree(bookings, d) ==
    LET free == FreeMinutes(bookings, d)
        ending(s) == CHOOSE e \in (s + 1)..1440 :
                        /\ e = 1440 \/ e \notin free
                        /\ \A x \in s..(e - 1) : x \in free
    IN  {<<s \div 60, s % 60, ending(s) \div 60, ending(s) % 60>> :
            s \in {m \in free : m = 0 \/ (m - 1) \notin free}}

\* the entries of a sequence
Range(seq) == {seq[i] : i \in DOMAIN seq}

\* C24: the 'Available timings' line of a requested day d in 0..6 lists
\* exactly the maximal sub-intervals of the day that no booking covers, as
\* HH:MM within 00:00-24:00: '00:00-24:00' when no booking intersects the
\* day, 'Fully booked' when the bookings cover it.
C24_AvailableTimings ==
    calc.pc = "rendered"
        => LET line == calc.out[3][1].available
           IN  /\ Range(line) = MaximalFree(calc.bookings, calc.day)
               /\ Len(line) = Cardinality(MaximalFree(calc.bookings, calc.day))

\* the bookings of the list whose half-open interval intersects day d
Intersecting(bookings, d) ==
    SelectSeq(bookings, LAMBDA b : StartAbs(b) < (d + 1) * 1440 /\ d * 1440 < EndAbs(b))

\* C25: the 'Current bookings' section of a requested day d lists booking
\* b if and only if start < (d+1)*1440 and d*1440 < end; a booking that
\* ends at 00:00 of day d is not listed under d, and 'None' is rendered
\* exactly when no booking intersects d.
C25_ListedIffIntersects ==
    calc.pc = "rendered"
        => LET lines == calc.out[3][1].bookings
               due == Intersecting(calc.bookings, calc.day)
           IN  /\ Len(lines) = Len(due)
               /\ \A i \in DOMAIN lines : lines[i][1] = due[i].ConfirmationID

\* C27: every stored booking has start and end fields with day in 0..6,
\* hour in 0..23 and minute in 0..59, after any Book requests with fields
\* in those ranges and Change requests with any offset.
C27_StoredFieldsInRange ==
    \A f \in DOMAIN facilityData : \A i \in DOMAIN facilityData[f] :
        LET bk == facilityData[f][i]
        IN  /\ bk.StartDay \in 0..6 /\ bk.EndDay \in 0..6
            /\ bk.StartHour \in 0..23 /\ bk.EndHour \in 0..23
            /\ bk.StartMinute \in 0..59 /\ bk.EndMinute \in 0..59

\* C30: no worker takes or holds the registry's lock while it holds the
\* store's lock: the pass of notifySubscribers over the registry, which runs
\* from monitorLock.Lock() to the deferred Unlock(), is made by a worker
\* that does not hold dataLock.
C30_FanOutWithoutStoreLock ==
    [][\A w \in DOMAIN workers :
          (workers[w].pc = "pass" /\ workers'[w].pc # "pass") => dataLock # w]_vars

\* the reply frames sent so far for key (addr, rid), in the order sent
ReplyFramesFor(addr, rid) ==
    SelectSeq(sent, LAMBDA s : /\ s.to = addr
                               /\ s.frame.OpCode # OpCallback
                               /\ s.frame.RequestID = rid)

\* the workers of key (addr, rid) that have called processOperation
Executors(addr, rid) ==
    {w \in DOMAIN workers : /\ workers[w].addr = addr
                            /\ workers[w].req.RequestID = rid
                            /\ workers[w].turn > 0}

\* C29: for every (peer, request-id) key, under either semantics and any
\* interleaving of workers, the first reply frame sent for the key is the
\* reply generated by the first execution of the handler for the key.
C29_FirstReplyFromFirstExecution ==
    \A addr \in {Writer, Watcher}, rid \in 1..MaxPackets :
        ReplyFramesFor(addr, rid) # << >>
            => \E w \in Executors(addr, rid) :
                  /\ \A v \in Executors(addr, rid) : workers[w].turn <= workers[v].turn
                  /\ ReplyFramesFor(addr, rid)[1].frame = workers[w].reply

\* the lists facility f has held at an instant when no mutation was in
\* progress and holds no later than now: the list as it stands, or, while
\* a Change has its booking taken out, the list before the removal
Settled(f) ==
    LET movers == {v \in DOMAIN workers : workers[v].pc = "moved" /\ workers[v].fac = f}
    IN  IF movers = {} THEN {facilityData[f]}
        ELSE {InsertAt(facilityData[f], workers[v].held.index, workers[v].held.booking) :
                v \in movers}

\* C28: what Query returns is rendered from the facility's list as it
\* stood when no mutation was in progress: every day's section a Query
\* renders, also in parallel with a Change, shows the bookings and the free
\* time of such a list, never the list with Change's booking taken out.
C28_QuerySeesSettledList ==
    [][\A w \in DOMAIN workers :
          (/\ workers[w].pc = "render" /\ workers'[w].pc = "render"
           /\ workers'[w].msg # workers[w].msg)
            => \E list \in Settled(workers[w].fac) :
                  LET day == workers[w].req.DaysList[Len(workers[w].msg) + 1]
                  IN  workers'[w].msg[Len(workers'[w].msg)] =
                          [day |-> day,
                           bookings |-> BookingLines(day, list),
                           available |-> availableTimingsForDay(day, list)]]_vars

\* C31: under at-most-once, whenever a worker sends the reply its handler
\* computed for key (peer, request-id), the cache holds that reply under
\* that key: the insertion came before the send.
C31_StoredBeforeSent ==
    [][\A w \in DOMAIN workers :
          (/\ semantics = SemanticsAtMostOnce
           /\ workers[w].pc = "send" /\ workers'[w].pc = "done")
            => LET key == RequestKey(workers[w].addr, workers[w].req)
               IN  /\ key \in DOMAIN history
                   /\ history[key] = workers[w].reply]_vars

\* the attempts that ended in a receive timeout
TimedOut(outcomes) ==
    Cardinality({i \in DOMAIN outcomes : outcomes[i] = "timeout"})

\* the attempt outcomes in which a datagram was received and not dropped
Received == {"accepted", "undecodable"}

\* SendRequest returns out of a receive
ReturnsFromRead ==
    client.pc = "read" /\ client'.pc \in {"returned", "failed"}

\* C32 as stated: with PacketDemo false, when SendRequest returns out of a
\* receive it has sent 1 plus the number of timed-out attempts datagrams.
C32_SendsOnePlusTimeouts ==
    [][(~client.PacketDemo /\ ReturnsFromRead)
          => Len(client'.wrote) = 1 + TimedOut(client'.outcomes)]_vars

\* C32 amended: with PacketDemo false no received datagram is dropped
\* whatever the draw, a received datagram ends the call, every send after
\* the first follows a timeout, and when SendRequest returns out of a
\* receive it has sent 1 plus the number of timed-out attempts datagrams,
\* except after the 4th timeout, where it has sent 4 and sends no more.
C32_ResendOnlyAfterTimeout ==
    /\ [](~client.PacketDemo =>
            /\ \A i \in DOMAIN client.outcomes :
                  /\ client.outcomes[i] # "dropped"
                  /\ client.outcomes[i] \in Received
                        => /\ i = Len(client.outcomes)
                           /\ client.pc \in {"returned", "failed"}
            /\ Len(client.wrote) <= 1 + TimedOut(client.outcomes)
            /\ Len(client.wrote) <= maxRetries
            /\ client.pc = "read"
                  => Len(client.wrote) = 1 + TimedOut(client.outcomes))
    /\ [][(~client.PacketDemo /\ ReturnsFromRead)
            => IF TimedOut(client'.outcomes) = maxRetries
                  THEN Len(client'.wrote) = maxRetries /\ client'.pc = "failed"
                  ELSE Len(client'.wrote) = 1 + TimedOut(client'.outcomes)]_vars

\* without loss injection the third datagram sent was answered, after two
\* timeouts
C32_Witness ==
    /\ ~client.PacketDemo
    /\ client.pc = "returned"
    /\ client.outcomes = <<"timeout", "timeout", "accepted">>
    /\ Len(client.wrote) = 3

\* the string fields MarshalRequest / MarshalReply put in a frame, in the
\* order written, each with the offset of its length prefix
StringFields(side, msg) ==
    IF side = "reply" THEN <<[off |-> 13, str |-> msg.Data]>>
    ELSE IF msg.OpCode \in {OpQueryAvailability, OpBookFacility, OpMonitorAvailability}
        THEN <<[off |-> 9, str |-> msg.FacilityName]>>
    ELSE IF msg.OpCode \in {OpChangeBooking, OpCancelBooking}
        THEN <<[off |-> 9, str |-> msg.ConfirmationID]>>
    ELSE <<[off |-> 9, str |-> msg.ConfirmationID],
           [off |-> 11 + Len(msg.ConfirmationID), str |-> msg.ParticipantName]>>

\* C33: in every frame the encoder produces, the u16 length prefix of each
\* string field equals the number of content bytes written after it, for
\* every string length, those above 65535 included.
C33_PrefixCountsContent ==
    (codec.pc = "framed" /\ codec.how = "whole")
        => \A i \in DOMAIN StringFields(codec.side, codec.msg) :
              LET f == StringFields(codec.side, codec.msg)[i]
              IN  /\ Uint(SubSeq(codec.data, f.off + 1, f.off + 2)) = Len(f.str)
                  /\ SubSeq(codec.data, f.off + 3, f.off + 2 + Len(f.str)) = f.str

\* C33 for the strings a u16 prefix can count
C33_PrefixCountsShortContent ==
    (codec.pc = "framed" /\ codec.how = "whole")
        => \A i \in DOMAIN StringFields(codec.side, codec.msg) :
              LET f == StringFields(codec.side, codec.msg)[i]
              IN  Len(f.str) <= 65535
                    => /\ Uint(SubSeq(codec.data, f.off + 1, f.off + 2)) = Len(f.str)
                       /\ SubSeq(codec.data, f.off + 3, f.off + 2 + Len(f.str)) = f.str

\* goroutine g is at the Lock() of a mutex another goroutine holds
Blocked(g) == \E m \in DOMAIN mutexes : WaitsFor(g, m) /\ mutexes[m] # 0

\* C34: the server never deadlocks: whenever goroutines are inside
\* handlePacket one of them can take its next step, a goroutine waiting for
\* the store, registry or cache lock eventually holds it, and every
\* goroutine returns from handlePacket, under fair scheduling.
C34_NoDeadlock ==
    /\ []((\E g \in DOMAIN goroutines : ~Returned(g))
            => \E g \in DOMAIN goroutines : ~Returned(g) /\ ~Blocked(g))
    /\ \A g \in 1..MaxGoroutines : \A m \in {"historyLock", "dataLock", "monitorLock"} :
          (g \in DOMAIN goroutines /\ WaitsFor(g, m)) ~> (mutexes[m] = g)
    /\ \A g \in 1..MaxGoroutines :
          (g \in DOMAIN goroutines) ~> (g \in DOMAIN goroutines /\ Returned(g))

\* three goroutines contend: one is in notifySubscribers' Lock() holding
\* the store lock, the registry lock is held by a registration, and the
\* third waits for the store lock
C34_Witness ==
    \E g1, g2, g3 \in DOMAIN goroutines :
        /\ mutexes.dataLock = g1 /\ WaitsFor(g1, "monitorLock")
        /\ mutexes.monitorLock = g2 /\ g2 # g1
        /\ WaitsFor(g3, "dataLock")

\* C35: every goroutine decodes the datagram it was started for, and a
\* Query uses the days of that datagram, whatever main reads into its
\* buffer in the meantime.
C35_DecodesOwnDatagram ==
    \A h \in DOMAIN recvBuf.handlers :
        /\ recvBuf.handlers[h].pc # "spawned"
              => recvBuf.handlers[h].out = Decoded(recvBuf.handlers[h].own)
        /\ \A i \in DOMAIN recvBuf.handlers[h].used :
              /\ i <= Len(recvBuf.handlers[h].own.DaysList)
              /\ recvBuf.handlers[h].used[i] = recvBuf.handlers[h].own.DaysList[i]

\* C35 for a goroutine that ran before main read again
C35_DecodesOwnDatagramIfLast ==
    \A h \in DOMAIN recvBuf.handlers :
        (h = Len(recvBuf.handlers) /\ recvBuf.handlers[h].pc = "done")
            => recvBuf.handlers[h].out = Decoded(recvBuf.handlers[h].own)

\* C36: the reply SendRequest returns carries the request-id and the opcode
\* of the request it was called with; a callback frame or a reply to an
\* earlier request is never returned in its place.
C36_ReturnsOwnReply ==
    client.pc = "returned"
        => /\ client.reply.RequestID = client.data.RequestID
           /\ client.reply.OpCode = client.data.OpCode

\* list s without its i-th booking; s itself for i = 0
Without(s, i) == IF i = 0 THEN s ELSE RemoveAt(s, i)

\* lists old and new of a facility differ at most in the booking that req
\* targets: Book appends one booking, Cancel takes the booking of its
\* confirmation id out (or none), Change and AddParticipant replace the
\* booking of their confirmation id by one of the same id; all other
\* bookings are the same records in the same order
OnlyTargetDiffers(req, old, new) ==
    \E i \in 0..Len(old), j \in 0..Len(new) :
        /\ Without(old, i) = Without(new, j)
        /\ i # 0 => old[i].ConfirmationID = req.ConfirmationID
        /\ CASE req.OpCode = OpBookFacility -> i = 0 /\ j = Len(new) /\ j # 0
             [] req.OpCode = OpCancelBooking -> j = 0
             [] OTHER -> /\ i # 0 /\ j # 0
                         /\ new[j].ConfirmationID = req.ConfirmationID

\* worker w's handler of a Book, Change, Cancel or AddParticipant runs in
\* this step and succeeds
UpdateSucceeds(w) ==
    /\ workers[w].pc = "exec" /\ workers'[w].pc # "exec"
    /\ workers[w].req.OpCode \in {OpBookFacility, OpChangeBooking,
                                  OpCancelBooking, OpAddParticipant}
    /\ workers'[w].reply.Status = 0

\* C37: a successful Book, Change, Cancel or AddParticipant changes only
\* the booking it targets: the facilities stay the same, the lists of all
\* facilities but one are untouched, and in that one every other booking
\* keeps its confirmation id, times and participants.
C37_OnlyTargetChanges ==
    [][\A w \in DOMAIN workers :
          UpdateSucceeds(w)
            => /\ DOMAIN facilityData' = DOMAIN facilityData
               /\ \E f \in DOMAIN facilityData :
                     /\ \A g \in DOMAIN facilityData \ {f} :
                           facilityData'[g] = facilityData[g]
                     /\ OnlyTargetDiffers(workers[w].req, facilityData[f],
                                          facilityData'[f])]_vars

\* BKG-10000 of RoomA has been cancelled: BKG-10001 and Lab1's booking
\* stand as seeded
C37_Witness ==
    /\ \E w \in DOMAIN workers :
          /\ workers[w].req.OpCode = OpCancelBooking
          /\ workers[w].req.ConfirmationID = 10000
          /\ workers[w].reply.Status = 0
          /\ workers[w].reply.Data = <<"Canceled booking", 10000>>
    /\ facilityData["RoomA"] = <<NewServerState["RoomA"][2]>>
    /\ facilityData["Lab1"] = NewServerState["Lab1"]

\* the places of the registry whose subscription expires after clock
\* reading t
LivePlaces(t) == {i \in DOMAIN monitorSubs : monitorSubs[i].ExpiresAt > t}

\* C38: a notification pass removes no live subscription: every
\* subscription that expires after the pass's clock reading, of the
\* changed facility or of another, is in the registry after the pass with
\* the same peer, facility and expiry, and the live subscriptions stand in
\* the order they stood in.
C38_LiveSubscriptionsKept ==
    [][\A w \in DOMAIN workers :
          (workers[w].pc = "pass" /\ workers'[w].pc # "pass")
            => \E place \in [LivePlaces(workers[w].readAt) -> DOMAIN monitorSubs'] :
                  /\ \A i \in LivePlaces(workers[w].readAt) :
                        monitorSubs'[place[i]] = monitorSubs[i]
                  /\ \A i, j \in LivePlaces(workers[w].readAt) :
                        i < j => place[i] < place[j]]_vars

\* a Book on Lab1 has notified while RoomA's and Lab1's subscriptions were
\* live: Lab1's peer was called back and both subscriptions are kept
C38_Witness ==
    /\ \E w \in DOMAIN workers :
          /\ workers[w].req.OpCode = OpBookFacility
          /\ workers[w].req.FacilityName = "Lab1"
          /\ workers[w].reply.Status = 0
          /\ workers[w].pc = "done"
    /\ Len(monitorSubs) = 2
    /\ monitorSubs[1].FacilityName = "RoomA" /\ monitorSubs[2].FacilityName = "Lab1"
    /\ \E k \in DOMAIN sent : sent[k].frame.OpCode = OpCallback

\* the listener goroutines that have not returned
ActiveListeners == {g \in DOMAIN cli.listeners : cli.listeners[g] # "ended"}

\* C39: SendRequest and a monitor listener never wait on the socket at the
\* same time, no listener takes the reply to the request SendRequest is
\* sending, and at most one listener goroutine is alive at any time.
C39_OneSocketReader ==
    /\ ~(cli.pc = "sending" /\ \E g \in DOMAIN cli.listeners : cli.listeners[g] = "reading")
    /\ \A k \in DOMAIN cli.taken :
          cli.taken[k].by = "listener" => cli.taken[k].frame # cli.taken[k].for
    /\ Cardinality(ActiveListeners) <= 1

\* C39, the part on replies alone
C39_RepliesReachSendRequest ==
    \A k \in DOMAIN cli.taken :
        cli.taken[k].by = "listener" => cli.taken[k].frame # cli.taken[k].for

\* C39, the part on the number of listeners alone
C39_OneListener == Cardinality(ActiveListeners) <= 1

\* the request-id of the i-th operation issued from the client's address
IssuedID(i) == workers[cli.ops[i].worker].req.RequestID

\* C40: two different operations issued from the same endpoint never
\* carry the same request-id, also across a restart of the client, so
\* under at-most-once the first datagram of an operation never finds a
\* cached reply: cached replies go to retransmissions only.
C40_FreshRequestIDs ==
    /\ \A i, j \in DOMAIN cli.ops : i # j => IssuedID(i) # IssuedID(j)
    /\ \A i \in DOMAIN cli.ops : ~CacheHit(cli.ops[i].worker)

\* C40 for the operations of one client process
C40_FreshRequestIDsInOneRun ==
    \A i, j \in DOMAIN cli.ops :
        (i # j /\ cli.ops[i].run = cli.ops[j].run) => IssuedID(i) # IssuedID(j)

====
